---------------------------- MODULE Spec2Model ----------------------------
(***************************************************************************)
(* Model of easy-gemini-balance: the credential Store (SQLiteKeyStore),    *)
(* the credential Index (KeyManager) and the Selection Engine              *)
(* (KeyBalancer), with the Health Update Protocol of APIKey.               *)
(*                                                                         *)
(* Weights are fixed-point numbers in thousandths (1.0 is 1000); a product *)
(* w * 0.8 is (w * 8) \div 10.  Times are seconds on a clock that the      *)
(* Advance action moves forward; datetime.now() reads that clock.  Key     *)
(* strings are the numbers 1..MaxKeys, ordered as the strings are.         *)
(*                                                                         *)
(* In Spec every action is one call of the public interface, run to its    *)
(* end by a single caller. State that no modelled operation reads back is  *)
(* left out: the LRU cache, selection_count, last_save_time and the        *)
(* updated_time column. time.time() and last_selection_time, which the     *)
(* rate limit of get_keys reads, move in SpecRate only. save_state_now is  *)
(* also what a tick of the auto-save worker does.                          *)
(*                                                                         *)
(* Spec is the program with MaxKeys key values. SpecWindow is one acquire  *)
(* on a pool of PoolSize credentials, wider than the candidate window.     *)
(* SpecReset is resets only. SpecAcquire is single-key acquires only, and  *)
(* SpecAcquireLive is SpecAcquire with the caller acquiring again and      *)
(* again. SpecRate is acquires with the rate limit. SpecImport is imports, *)
(* some of which the Store fails; SpecFault is the other calls of the      *)
(* Index with the Store failing in some. SpecIndex, SpecSelect,            *)
(* SpecReport, SpecErrors, SpecRemove and SpecFlush run calls by several   *)
(* threads one statement at a time, and SpecFlushLive is SpecFlush with    *)
(* the auto-save worker always taking its next step. SpecRetry is          *)
(* execute_with_retry of GeminiClientWrapper.                              *)
(***************************************************************************)
EXTENDS Integers, Sequences, FiniteSets, TLC

\* ------------------------------------------------------------------ bounds
MaxKeys == 2
MaxCalls == 3
MaxTicks == 1
ClockStep == 300
PoolSize == 6
PoolCalls == 1
ResetCalls == 2
ImportCalls == 2
FlushCalls == 2
IndexCalls == 3
FaultCalls == 2
RetryCalls == 1
MaxRetries == 2
SelectCalls == 2
ReportCalls == 3
RateCalls == 3
MaxClock == 22
MaxOversleep == 1
MaxLines == 3

\* --------------------------------------------------------- program constants
DefaultWeight == 1000
MinSelectionInterval == 5
MaxWeight == 10000
MinWeight == 100
FatalCode == 400
CooldownWeight == 200
CooldownSeconds == 300
WindowSize == 5
SecondsPerDay == 86400
None == -1

TransientCodes == {403, 429, 500, 502, 503, 504}

\* ------------------------------------------------------------------- inputs
KeyValues == 1..MaxKeys
AddWeights == {DefaultWeight, 110, 50000}
ErrorCodes == {FatalCode, 429, 404}
Counts == 0..MaxKeys
CleanupDays == {0, 30}

VARIABLES
    keys,                 \* KeyManager.keys: the Index, a list of APIKey
    keys_set,             \* KeyManager.keys_set
    db,                   \* the api_keys table: key -> row
    import_history,       \* the import_history table, oldest row first
    available_keys_list,  \* KeyBalancer._available_keys_list (key values)
    auto_success,         \* KeyBalancer.auto_success
    now,                  \* the clock datetime.now() reads
    ret,                  \* what the last call returned or raised
    fatal,                \* history: live keys that reported 400 since the last reset
    calls,                \* number of calls made so far
    threads,              \* per thread: the call it is inside and where in it
    clock,                \* what time.time() reads, in hundredths of a second
    last_selection_time   \* KeyBalancer.last_selection_time

vars == <<keys, keys_set, db, import_history, available_keys_list,
          auto_success, now, ret, fatal, calls, threads, clock,
          last_selection_time>>

\* ---------------------------------------------------------------- datetime
\* datetime.isoformat(): the text of a time.
isoformat(t) == ToString(t)

\* time.time() when the balancer is constructed: far from 0, which is what
\* last_selection_time starts at.
StartClock == 2 * MinSelectionInterval

Times == {n * ClockStep : n \in 0..MaxTicks}

\* datetime.fromisoformat(): the time a text denotes.
fromisoformat(s) == CHOOSE t \in Times : isoformat(t) = s

NULL == "NULL"

\* `x.isoformat() if x else None` of insert_key / update_key.
TimeToText(t) == IF t = None THEN NULL ELSE isoformat(t)

\* `if row[i]: key.f = datetime.fromisoformat(row[i])` of get_key / get_all_keys.
TextToTime(s) == IF s = NULL THEN None ELSE fromisoformat(s)

\* ------------------------------------------------------------------ APIKey
NewAPIKey(k, w, src, t) ==
    [key |-> k, weight |-> w, is_available |-> TRUE,
     last_used |-> None, last_error |-> None,
     error_count |-> 0, consecutive_errors |-> 0,
     added_time |-> t, source |-> src]

Max(a, b) == IF a >= b THEN a ELSE b
Min(a, b) == IF a <= b THEN a ELSE b

\* Mutant: the time of use not recorded.
mark_used_not_recorded(key, t) == key

mark_used(key, t) == [key EXCEPT !.last_used = t]

\* Mutant: the penalties without the max(min_weight, ...) clamp.
mark_error_unclamped(key, error_code, t) ==
    LET k1 == [key EXCEPT !.last_error = t,
                          !.error_count = @ + 1,
                          !.consecutive_errors = @ + 1]
    IN  IF error_code = FatalCode
          THEN [k1 EXCEPT !.is_available = FALSE]
          ELSE IF error_code \in TransientCodes
                 THEN [k1 EXCEPT !.weight = (@ * 8) \div 10]
                 ELSE [k1 EXCEPT !.weight = (@ * 9) \div 10]

\* Mutant: every code but 400 takes the milder penalty.
mark_error_flat_penalty(key, error_code, t) ==
    LET k1 == [key EXCEPT !.last_error = t,
                          !.error_count = @ + 1,
                          !.consecutive_errors = @ + 1]
    IN  IF error_code = FatalCode
          THEN [k1 EXCEPT !.is_available = FALSE]
          ELSE [k1 EXCEPT !.weight = Max(MinWeight, (@ * 9) \div 10)]

\* Mutant: the run of errors counted from one at every report.
mark_error_restarts_count(key, error_code, t) ==
    LET k1 == [key EXCEPT !.last_error = t,
                          !.error_count = @ + 1,
                          !.consecutive_errors = 1]
    IN  IF error_code = FatalCode
          THEN [k1 EXCEPT !.is_available = FALSE]
          ELSE IF error_code \in TransientCodes
                 THEN [k1 EXCEPT !.weight = Max(MinWeight, (@ * 8) \div 10)]
                 ELSE [k1 EXCEPT !.weight = Max(MinWeight, (@ * 9) \div 10)]

mark_error(key, error_code, t) ==
    LET k1 == [key EXCEPT !.last_error = t,
                          !.error_count = @ + 1,
                          !.consecutive_errors = @ + 1]
    IN  IF error_code = FatalCode
          THEN [k1 EXCEPT !.is_available = FALSE]
          ELSE IF error_code \in TransientCodes
                 THEN [k1 EXCEPT !.weight = Max(MinWeight, (@ * 8) \div 10)]
                 ELSE [k1 EXCEPT !.weight = Max(MinWeight, (@ * 9) \div 10)]

\* Mutant: a success also restores availability.
mark_success_restores(key) ==
    LET k1 == [key EXCEPT !.consecutive_errors = 0, !.is_available = TRUE]
    IN  IF k1.weight < MaxWeight
          THEN [k1 EXCEPT !.weight = Min(MaxWeight, (@ * 11) \div 10)]
          ELSE k1

mark_success(key) ==
    LET k1 == [key EXCEPT !.consecutive_errors = 0]
    IN  IF k1.weight < MaxWeight
          THEN [k1 EXCEPT !.weight = Min(MaxWeight, (@ * 11) \div 10)]
          ELSE k1

\* Mutant: the error history cleared as well.
reset_weight_clears_history(key) ==
    [key EXCEPT !.weight = DefaultWeight,
                !.is_available = TRUE,
                !.consecutive_errors = 0,
                !.error_count = 0,
                !.last_error = None]

\* Mutant: the available flag flipped instead of set.
reset_weight_flips_available(key) ==
    [key EXCEPT !.weight = DefaultWeight,
                !.is_available = ~@,
                !.consecutive_errors = 0]

reset_weight(key) ==
    [key EXCEPT !.weight = DefaultWeight,
                !.is_available = TRUE,
                !.consecutive_errors = 0]


\* ---------------------------------------------------------- SQLiteKeyStore
\* The values insert_key / upsert_key bind to a row's columns.  The column
\* updated_time, which no SELECT of the program reads, is left out.
RowOf(key, t) ==
    [weight |-> key.weight,
     is_available |-> IF key.is_available THEN 1 ELSE 0,
     error_count |-> key.error_count,
     consecutive_errors |-> key.consecutive_errors,
     last_used |-> TimeToText(key.last_used),
     last_error |-> TimeToText(key.last_error),
     added_time |-> isoformat(key.added_time),
     source |-> key.source]

\* The APIKey that get_key / get_all_keys build from a row.  The SELECT
\* lists key, weight, is_available, error_count, consecutive_errors,
\* last_used, last_error, added_time, source as row[0..8]; the constructor
\* is given source=row[7].
\* Mutant: the is_available column read as always set.
RowToKey_always_available(k, row) ==
    [key |-> k,
     weight |-> row.weight,
     is_available |-> TRUE,
     last_used |-> TextToTime(row.last_used),
     last_error |-> TextToTime(row.last_error),
     error_count |-> row.error_count,
     consecutive_errors |-> row.consecutive_errors,
     added_time |-> fromisoformat(row.added_time),
     source |-> row.added_time]

RowToKey(k, row) ==
    [key |-> k,
     weight |-> row.weight,
     is_available |-> (row.is_available # 0),
     last_used |-> TextToTime(row.last_used),
     last_error |-> TextToTime(row.last_error),
     error_count |-> row.error_count,
     consecutive_errors |-> row.consecutive_errors,
     added_time |-> fromisoformat(row.added_time),
     source |-> row.added_time]

\* insert_key: TRUE and the row inserted, or FALSE on IntegrityError.
insert_ok(d, key) == key.key \notin DOMAIN d

\* Mutant: the row inserted with the column default for the weight.
insert_key_default_weight(d, key, t) ==
    IF insert_ok(d, key)
      THEN [k \in DOMAIN d \cup {key.key} |->
               IF k = key.key THEN [RowOf(key, t) EXCEPT !.weight = DefaultWeight]
               ELSE d[k]]
      ELSE d

insert_key(d, key, t) ==
    IF insert_ok(d, key)
      THEN [k \in DOMAIN d \cup {key.key} |->
               IF k = key.key THEN RowOf(key, t) ELSE d[k]]
      ELSE d

\* update_key: UPDATE ... WHERE key = ?; no row, no change.
\* Mutant: the weight column left out of the UPDATE.
update_key_without_weight(d, key, t) ==
    IF key.key \in DOMAIN d
      THEN [d EXCEPT ![key.key] =
               [@ EXCEPT !.is_available = IF key.is_available THEN 1 ELSE 0,
                         !.error_count = key.error_count,
                         !.consecutive_errors = key.consecutive_errors,
                         !.last_used = TimeToText(key.last_used),
                         !.last_error = TimeToText(key.last_error)]]
      ELSE d

update_key(d, key, t) ==
    IF key.key \in DOMAIN d
      THEN [d EXCEPT ![key.key] =
               [@ EXCEPT !.weight = key.weight,
                         !.is_available = IF key.is_available THEN 1 ELSE 0,
                         !.error_count = key.error_count,
                         !.consecutive_errors = key.consecutive_errors,
                         !.last_used = TimeToText(key.last_used),
                         !.last_error = TimeToText(key.last_error)]]
      ELSE d

delete_ok(d, k) == k \in DOMAIN d

delete_key(d, k) == [x \in DOMAIN d \ {k} |-> d[x]]

get_key(d, k) == RowToKey(k, d[k])

\* ORDER BY key.
RECURSIVE OrderByKey(_)
OrderByKey(S) ==
    IF S = {} THEN <<>>
    ELSE LET m == CHOOSE x \in S : \A y \in S : x <= y
         IN  <<m>> \o OrderByKey(S \ {m})

get_all_keys(d) ==
    LET ks == OrderByKey(DOMAIN d)
    IN  [i \in 1..Len(ks) |-> RowToKey(ks[i], d[ks[i]])]

\* cleanup_old_keys of the store: the rows DELETE ... WHERE last_used < ?
\* AND last_used IS NOT NULL removes.  The comparison is of ISO texts,
\* which order as the times do.
\* Mutant: a row never used counts as stale.
StaleRows_counts_never_used(d, days_old, t) ==
    {k \in DOMAIN d :
        IF d[k].last_used = NULL THEN TRUE
        ELSE fromisoformat(d[k].last_used) < t - days_old * SecondsPerDay}

StaleRows(d, days_old, t) ==
    {k \in DOMAIN d :
        /\ d[k].last_used # NULL
        /\ fromisoformat(d[k].last_used) < t - days_old * SecondsPerDay}

store_cleanup_old_keys(d, days_old, t) ==
    [x \in DOMAIN d \ StaleRows(d, days_old, t) |-> d[x]]

\* A line of an import file, after strip(): blank or '#...' ("skip"),
\* '<key>' ("plain"), '<key>:<float>' ("weighted"), '<key>:<not a float>'
\* ("malformed").
SkipLine == [kind |-> "skip", key |-> 0, weight |-> 0]
PlainLine(k) == [kind |-> "plain", key |-> k, weight |-> 0]
WeightedLine(k, w) == [kind |-> "weighted", key |-> k, weight |-> w]
MalformedLine(k) == [kind |-> "malformed", key |-> k, weight |-> 0]

WeightTolerance == 10

Abs(x) == IF x < 0 THEN -x ELSE x

\* The loop of import_keys_from_file over the lines; acc carries the table
\* and the counters.
RECURSIVE ImportLines(_, _, _, _)
ImportLines(lines, acc, source, t) ==
    IF lines = <<>> THEN acc
    ELSE
      LET line == Head(lines)
          weight == IF line.kind = "weighted" THEN line.weight ELSE DefaultWeight
          key_str == line.key
          d == acc.db
          next ==
            IF line.kind = "skip" THEN acc
            ELSE IF key_str \in DOMAIN d
              THEN LET existing_key == get_key(d, key_str)
                   IN  IF Abs(existing_key.weight - weight) > WeightTolerance
                         THEN [acc EXCEPT
                                 !.db = update_key(d, [existing_key EXCEPT !.weight = weight], t),
                                 !.updated_keys = @ + 1]
                         ELSE [acc EXCEPT !.skipped_keys = @ + 1]
              ELSE LET new_key == NewAPIKey(key_str, weight, source, t)
                   IN  [acc EXCEPT !.db = insert_key(d, new_key, t),
                                   !.new_keys = @ + 1]
      IN  ImportLines(Tail(lines), next, source, t)

store_import_keys_from_file(d, lines, source, t) ==
    ImportLines(lines, [db |-> d, new_keys |-> 0, updated_keys |-> 0,
                        skipped_keys |-> 0], source, t)

\* -------------------------------------------------------------- KeyManager
KeySetOf(ks) == {ks[i].key : i \in DOMAIN ks}

load_from_database(d) == get_all_keys(d)

RECURSIVE save_state(_, _, _)
save_state(ks, d, t) ==
    IF ks = <<>> THEN d
    ELSE save_state(Tail(ks), update_key(d, Head(ks), t), t)

\* Mutant: the availability test dropped.
get_available_keys_unfiltered(ks) == ks

get_available_keys(ks) == SelectSeq(ks, LAMBDA key : key.is_available)

\* Index of the record get_key_by_value returns, 0 for None.
\* Mutant: a value not in the Index is looked up as the first record.
get_key_by_value_first_record(ks, kset, key_value) ==
    IF \E i \in DOMAIN ks : ks[i].key = key_value
      THEN CHOOSE i \in DOMAIN ks :
              /\ ks[i].key = key_value
              /\ \A j \in DOMAIN ks : ks[j].key = key_value => i <= j
      ELSE IF ks = <<>> THEN 0 ELSE 1

get_key_by_value(ks, kset, key_value) ==
    IF key_value \in kset /\ \E i \in DOMAIN ks : ks[i].key = key_value
      THEN CHOOSE i \in DOMAIN ks :
              /\ ks[i].key = key_value
              /\ \A j \in DOMAIN ks : ks[j].key = key_value => i <= j
      ELSE 0

\* update_key_health of the manager: the new Index.
km_update_key_health(ks, kset, key_value, error_code, success, t) ==
    LET i == get_key_by_value(ks, kset, key_value)
    IN  IF i = 0 THEN ks
        ELSE IF success THEN [ks EXCEPT ![i] = mark_success(@)]
        ELSE IF error_code # None THEN [ks EXCEPT ![i] = mark_error(@, error_code, t)]
        ELSE ks

reset_all(ks) == [i \in DOMAIN ks |-> reset_weight(ks[i])]

\* ------------------------------------------------------------- KeyBalancer
\* The sort key of _update_weight_distribution:
\* (k.last_used is None, k.last_used or datetime.min), False < True.
lru_sort_key(key) ==
    IF key.last_used = None THEN <<1, 0>> ELSE <<0, key.last_used>>

TupleLess(a, b) == a[1] < b[1] \/ (a[1] = b[1] /\ a[2] < b[2])

\* sorted(): stable, ascending by the sort key.
RECURSIVE sorted(_)
sorted(s) ==
    IF s = <<>> THEN <<>>
    ELSE LET x == s[Len(s)]
             r == sorted(SubSeq(s, 1, Len(s) - 1))
             n == Cardinality({i \in DOMAIN r :
                                 ~TupleLess(lru_sort_key(x), lru_sort_key(r[i]))})
         IN  SubSeq(r, 1, n) \o <<x>> \o SubSeq(r, n + 1, Len(r))

\* The keys the cooldown loop skips.
\* Mutant: no key is ever skipped.
in_cooldown_never(key, t) == FALSE

in_cooldown(key, t) ==
    /\ key.last_error # None
    /\ key.weight <= CooldownWeight
    /\ t - key.last_error < CooldownSeconds

\* Mutant: no fallback to the unfiltered list.
cooldown_filter_no_fallback(lru_sorted_keys, t) ==
    SelectSeq(lru_sorted_keys, LAMBDA key : ~in_cooldown(key, t))

cooldown_filter(lru_sorted_keys, t) ==
    LET filtered_keys == SelectSeq(lru_sorted_keys, LAMBDA key : ~in_cooldown(key, t))
    IN  IF filtered_keys = <<>> THEN lru_sorted_keys ELSE filtered_keys

\* _update_weight_distribution: the new _available_keys_list, as key values.
update_weight_distribution(ks, t) ==
    LET available_keys == get_available_keys(ks)
        lru_sorted_keys == sorted(available_keys)
        filtered_keys == cooldown_filter(lru_sorted_keys, t)
        max_keys_to_consider == Min(WindowSize, Len(filtered_keys))
    IN  [i \in 1..max_keys_to_consider |-> filtered_keys[i].key]

\* The loop of get_keys that marks the first Index record of each selected
\* key as used.
RECURSIVE mark_selected_used(_, _, _)
mark_selected_used(ks, selected, t) ==
    IF selected = <<>> THEN ks
    ELSE LET hits == {i \in DOMAIN ks : ks[i].key = Head(selected)}
             i == IF hits = {} THEN 0
                  ELSE CHOOSE x \in hits : \A y \in hits : x <= y
         IN  mark_selected_used(
                 IF i = 0 THEN ks ELSE [ks EXCEPT ![i] = mark_used(@, t)],
                 Tail(selected), t)

\* _mark_key_success.
mark_key_success(ks, kset, key_value, t) ==
    LET i == get_key_by_value(ks, kset, key_value)
    IN  IF i = 0 THEN ks ELSE [ks EXCEPT ![i].last_used = t]

RECURSIVE mark_all_success(_, _, _, _)
mark_all_success(ks, kset, key_strings, t) ==
    IF key_strings = <<>> THEN ks
    ELSE mark_all_success(mark_key_success(ks, kset, Head(key_strings), t),
                          kset, Tail(key_strings), t)

\* The keys get_keys takes from the window.
\* Mutant: the first key of the window taken for every slot.
select_keys_repeats_first(window, count) ==
    [i \in 1..Min(count, Len(window)) |-> window[1]]

select_keys(window, count) ==
    IF count >= Len(window) THEN window ELSE SubSeq(window, 1, count)

\* ---------------------------------------------------------------- the state
Ret(op, ok, ks, stats) == [op |-> op, ok |-> ok, keys |-> ks, stats |-> stats]

\* What a call that raised leaves to its caller: the exception.
Raised(op, exc) == [op |-> op, ok |-> FALSE, keys |-> <<>>, stats |-> <<exc>>]

\* The threads of the process: two callers and the auto-save worker of
\* _start_auto_save.  A thread is idle or inside a call, at step pc of it,
\* with the call's argument and local variables.
Threads == {"t1", "t2", "worker"}

Idle == [op |-> "idle", pc |-> 0, arg |-> 0, local |-> <<>>]

\* The records an earlier run of the program can leave for key k in the
\* table: added; added and acquired; added with weight 0.25 and reported
\* 429; added and reported 400.
PriorKinds == {"fresh", "used", "cooling", "fatal"}

PriorKey(k, kind) ==
    LET fresh == NewAPIKey(k, DefaultWeight, "manual", 0)
    IN  CASE kind = "fresh" -> fresh
          [] kind = "used" -> mark_used(fresh, 0)
          [] kind = "cooling" -> mark_error(NewAPIKey(k, 250, "manual", 0), 429, 0)
          [] kind = "fatal" -> mark_error(fresh, FatalCode, 0)

PriorKeys(k) == {PriorKey(k, kind) : kind \in PriorKinds}

PriorTables ==
    UNION {{f \in [S -> UNION {PriorKeys(k) : k \in S}] :
               \A k \in S : f[k] \in PriorKeys(k)} : S \in SUBSET KeyValues}

PriorTable(f) == [k \in DOMAIN f |-> RowOf(f[k], 0)]

Init ==
    /\ \E f \in PriorTables : db = PriorTable(f)
    /\ keys = load_from_database(db)
    /\ keys_set = KeySetOf(keys)
    /\ import_history = <<>>
    /\ now = 0
    /\ available_keys_list = update_weight_distribution(keys, now)
    /\ auto_success \in BOOLEAN
    /\ ret = Ret("init", TRUE, <<>>, <<>>)
    /\ fatal = {k \in DOMAIN db : db[k].is_available = 0}
    /\ calls = 0
    /\ threads = [t \in Threads |-> Idle]
    /\ clock = StartClock
    /\ last_selection_time = 0

\* A call made while no other thread is inside one, and run to its end.
Call == calls < MaxCalls /\ calls' = calls + 1 /\ UNCHANGED threads

Advance ==
    /\ now + ClockStep <= MaxTicks * ClockStep
    /\ now' = now + ClockStep
    /\ UNCHANGED <<keys, keys_set, db, import_history, available_keys_list,
                   auto_success, ret, fatal, calls, threads, clock,
                   last_selection_time>>

get_keys(count) ==
    /\ Call
    /\ LET window == update_weight_distribution(keys, now)
           cnt == IF count > Len(window) THEN Len(window) ELSE count
           selected_keys == select_keys(window, cnt)
           used == mark_selected_used(keys, selected_keys, now)
       IN  IF count <= 0
             THEN /\ ret' = Ret("get_keys", TRUE, <<>>, <<>>)
                  /\ UNCHANGED <<keys, available_keys_list>>
           ELSE IF window = <<>>
             THEN /\ ret' = Ret("get_keys", FALSE, <<>>, <<>>)
                  /\ available_keys_list' = window
                  /\ UNCHANGED keys
           ELSE /\ available_keys_list' = window
                /\ keys' = IF auto_success
                             THEN mark_all_success(used, keys_set, selected_keys, now)
                             ELSE used
                /\ ret' = Ret("get_keys", TRUE, selected_keys, <<>>)
    /\ UNCHANGED <<keys_set, db, import_history, auto_success, now, clock, last_selection_time, fatal>>

update_key_health(key_value, error_code, success) ==
    /\ Call
    /\ LET i == get_key_by_value(keys, keys_set, key_value)
           ks == km_update_key_health(keys, keys_set, key_value, error_code, success, now)
       IN  /\ keys' = ks
           /\ db' = IF i = 0 THEN db ELSE update_key(db, ks[i], now)
           /\ available_keys_list' =
                 IF error_code = FatalCode \/ (success /\ error_code = None)
                   THEN update_weight_distribution(ks, now)
                   ELSE available_keys_list
           /\ fatal' = IF i # 0 /\ ~success /\ error_code = FatalCode
                         THEN fatal \cup {key_value} ELSE fatal
    /\ ret' = Ret("update_key_health", TRUE, <<>>, <<>>)
    /\ UNCHANGED <<keys_set, import_history, auto_success, now, clock, last_selection_time>>

reload_keys ==
    /\ Call
    /\ keys' = load_from_database(db)
    /\ keys_set' = KeySetOf(keys')
    /\ available_keys_list' = update_weight_distribution(keys', now)
    /\ fatal' = fatal \cap keys_set'
    /\ ret' = Ret("reload_keys", TRUE, <<>>, <<>>)
    /\ UNCHANGED <<db, import_history, auto_success, now, clock, last_selection_time>>

reset_all_weights ==
    /\ Call
    /\ keys' = reset_all(keys)
    /\ db' = save_state(keys', db, now)
    /\ available_keys_list' = update_weight_distribution(keys', now)
    /\ fatal' = {}
    /\ ret' = Ret("reset_all_weights", TRUE, <<>>, <<>>)
    /\ UNCHANGED <<keys_set, import_history, auto_success, now, clock, last_selection_time>>

save_state_now ==
    /\ Call
    /\ db' = save_state(keys, db, now)
    /\ ret' = Ret("save_state_now", TRUE, <<>>, <<>>)
    /\ UNCHANGED <<keys, keys_set, import_history, available_keys_list,
                   auto_success, now, clock, last_selection_time, fatal>>

\* Mutant: the key added without either test for an existing one.
add_key_unchecked(key_value, weight, source) ==
    /\ Call
    /\ LET new_key == NewAPIKey(key_value, weight, source, now)
       IN  /\ db' = [k \in DOMAIN db \cup {key_value} |->
                       IF k = key_value THEN RowOf(new_key, now) ELSE db[k]]
           /\ keys' = Append(keys, new_key)
           /\ keys_set' = keys_set \cup {key_value}
           /\ ret' = Ret("add_key", TRUE, <<>>, <<>>)
    /\ UNCHANGED <<import_history, available_keys_list, auto_success, now, clock, last_selection_time, fatal>>

add_key(key_value, weight, source) ==
    /\ Call
    /\ LET new_key == NewAPIKey(key_value, weight, source, now)
       IN  IF key_value \notin keys_set /\ insert_ok(db, new_key)
             THEN /\ db' = insert_key(db, new_key, now)
                  /\ keys' = Append(keys, new_key)
                  /\ keys_set' = keys_set \cup {key_value}
                  /\ ret' = Ret("add_key", TRUE, <<>>, <<>>)
             ELSE /\ ret' = Ret("add_key", FALSE, <<>>, <<>>)
                  /\ UNCHANGED <<db, keys, keys_set>>
    /\ UNCHANGED <<import_history, available_keys_list, auto_success, now, clock, last_selection_time, fatal>>

remove_key(key_value) ==
    /\ Call
    /\ IF key_value \in keys_set /\ delete_ok(db, key_value)
         THEN /\ db' = delete_key(db, key_value)
              /\ keys' = SelectSeq(keys, LAMBDA k : k.key # key_value)
              /\ keys_set' = keys_set \ {key_value}
              /\ ret' = Ret("remove_key", TRUE, <<>>, <<>>)
         ELSE /\ ret' = Ret("remove_key", FALSE, <<>>, <<>>)
              /\ UNCHANGED <<db, keys, keys_set>>
    /\ fatal' = fatal \cap keys_set'
    /\ UNCHANGED <<import_history, available_keys_list, auto_success, now, clock, last_selection_time>>

\* A row of import_history: source_file, then keys_count, new_keys,
\* updated_keys, skipped_keys.  A file is named by its lines.
HistoryRow(lines, stats) == <<lines>> \o stats

import_keys_from_file(lines, source) ==
    /\ Call
    /\ LET r == store_import_keys_from_file(db, lines, source, now)
           stats == <<Len(lines), r.new_keys, r.updated_keys, r.skipped_keys>>
       IN  /\ db' = r.db
           /\ import_history' = Append(import_history, HistoryRow(lines, stats))
           /\ keys' = load_from_database(r.db)
           /\ keys_set' = KeySetOf(keys')
           /\ ret' = Ret("import_keys_from_file", TRUE, <<>>, stats)
    /\ fatal' = fatal \cap keys_set'
    /\ UNCHANGED <<available_keys_list, auto_success, now, clock, last_selection_time>>

cleanup_old_keys(days_old) ==
    /\ Call
    /\ LET removed_count == Cardinality(StaleRows(db, days_old, now))
       IN  /\ db' = store_cleanup_old_keys(db, days_old, now)
           /\ IF removed_count > 0
                THEN /\ keys' = load_from_database(db')
                     /\ keys_set' = KeySetOf(keys')
                     /\ available_keys_list' = update_weight_distribution(keys', now)
                ELSE UNCHANGED <<keys, keys_set, available_keys_list>>
           /\ ret' = Ret("cleanup_old_keys", TRUE, <<>>, <<removed_count>>)
    /\ fatal' = fatal \cap keys_set'
    /\ UNCHANGED <<import_history, auto_success, now, clock, last_selection_time>>

get_stats ==
    /\ Call
    /\ available_keys_list' = update_weight_distribution(keys, now)
    /\ ret' = Ret("get_stats", TRUE, <<>>, <<>>)
    /\ UNCHANGED <<keys, keys_set, db, import_history, auto_success, now, clock, last_selection_time, fatal>>

\* The files import is given.
ImportFiles ==
    {<<PlainLine(1)>>,
     <<WeightedLine(1, 9500)>>,
     <<SkipLine, WeightedLine(MaxKeys, 250), MalformedLine(1)>>}

Next ==
    \/ Advance
    \/ \E count \in Counts : get_keys(count)
    \/ \E k \in KeyValues : update_key_health(k, None, TRUE)
    \/ \E k \in KeyValues, code \in ErrorCodes : update_key_health(k, code, FALSE)
    \/ reload_keys
    \/ reset_all_weights
    \/ save_state_now
    \/ \E k \in KeyValues, w \in AddWeights : add_key(k, w, "manual")
    \/ \E k \in KeyValues : remove_key(k)
    \/ \E lines \in ImportFiles : import_keys_from_file(lines, "imported")
    \/ \E days_old \in CleanupDays : cleanup_old_keys(days_old)
    \/ get_stats

Spec == Init /\ [][Next]_vars

\* ------------------------------------------------ a pool wider than the window
\* One acquire on a pool of PoolSize credentials, more than the window of
\* _update_weight_distribution holds, each left by an earlier run in one of
\* the states of PriorKey.
PoolValues == 1..PoolSize
PoolCounts == 0..PoolSize + 1

WindowInit ==
    /\ \E g \in [PoolValues -> PriorKinds] :
          db = [k \in PoolValues |-> RowOf(PriorKey(k, g[k]), 0)]
    /\ keys = load_from_database(db)
    /\ keys_set = KeySetOf(keys)
    /\ import_history = <<>>
    /\ now = 0
    /\ available_keys_list = update_weight_distribution(keys, now)
    /\ auto_success \in BOOLEAN
    /\ ret = Ret("init", TRUE, <<>>, <<>>)
    /\ fatal = {k \in DOMAIN db : db[k].is_available = 0}
    /\ calls = 0
    /\ threads = [t \in Threads |-> Idle]
    /\ clock = StartClock
    /\ last_selection_time = 0

NextWindow ==
    \/ Advance
    \/ \E count \in PoolCounts : calls < PoolCalls /\ get_keys(count)

SpecWindow == WindowInit /\ [][NextWindow]_vars

\* ------------------------------------------------------ resets in a row
\* Nothing but resets, on the table an earlier run left.
NextReset ==
    \/ Advance
    \/ calls < ResetCalls /\ reset_all_weights

SpecReset == Init /\ [][NextReset]_vars

\* --------------------------------------------------------- imports, failing or not
\* The lines of a file at which a Store operation can raise: every line
\* that names a key, and (one past the last line) the insert of the history
\* row.
FailPoints(lines) ==
    {n \in 1..Len(lines) + 1 : n = Len(lines) + 1 \/ lines[n].kind # "skip"}

\* import_keys_from_file when the Store raises at line n.  The lines before
\* n went through get_key / update_key / insert_key, each on a connection of
\* its own that it committed; the ROLLBACK is of the connection that ran
\* BEGIN TRANSACTION and nothing else.  The exception leaves the manager's
\* import_keys_from_file before its reload.
import_keys_from_file_fails(lines, source, n) ==
    /\ Call
    /\ n \in FailPoints(lines)
    /\ db' = store_import_keys_from_file(db, SubSeq(lines, 1, n - 1), source, now).db
    /\ ret' = Raised("import_keys_from_file", "StorageError")
    /\ UNCHANGED <<keys, keys_set, import_history, available_keys_list,
                   auto_success, now, clock, last_selection_time, fatal>>

\* Files that name a key twice, that give a weight within the tolerance of
\* the default, and that name every key.
ImportFilesWide ==
    ImportFiles \cup
    {<<WeightedLine(1, DefaultWeight), WeightedLine(1, 5000)>>,
     <<WeightedLine(MaxKeys, DefaultWeight + 5), SkipLine>>,
     [k \in KeyValues |-> PlainLine(k)]}

NextImport ==
    \/ Advance
    \/ \E lines \in ImportFilesWide :
          calls < ImportCalls /\ import_keys_from_file(lines, "imported")
    \/ \E lines \in ImportFilesWide, n \in 1..MaxLines + 1 :
          calls < ImportCalls /\ import_keys_from_file_fails(lines, "imported", n)

SpecImport == Init /\ [][NextImport]_vars

\* ------------------------------------------------------ acquires for ever
\* get_single_key: get_keys(1) and its first element; RuntimeError when the
\* window is empty.  Calls are not counted here, so a caller can go on
\* acquiring for ever.
get_single_key ==
    /\ LET window == update_weight_distribution(keys, now)
           selected_keys == select_keys(window, 1)
           used == mark_selected_used(keys, selected_keys, now)
       IN  IF window = <<>>
             THEN /\ ret' = Ret("get_single_key", FALSE, <<>>, <<>>)
                  /\ available_keys_list' = window
                  /\ UNCHANGED keys
             ELSE /\ available_keys_list' = window
                  /\ keys' = IF auto_success
                               THEN mark_all_success(used, keys_set, selected_keys, now)
                               ELSE used
                  /\ ret' = Ret("get_single_key", TRUE, <<selected_keys[1]>>, <<>>)
    /\ UNCHANGED <<keys_set, db, import_history, auto_success, now, clock, last_selection_time, fatal,
                   calls, threads>>

NextAcquire ==
    \/ Advance
    \/ get_single_key

SpecAcquire == Init /\ [][NextAcquire]_vars

\* The caller goes on acquiring.
SpecAcquireLive == SpecAcquire /\ WF_vars(get_single_key)

\* ------------------------------------------------- GeminiClientWrapper
\* An exception an operation raises: its status_code attribute, the
\* status_code of its response attribute (None where the attribute is
\* absent), and the keywords that str(error).lower() contains.
Keywords == {"quota", "rate limit", "unauthorized", "invalid", "forbidden",
             "not found", "server error", "internal"}

Error(status_code, response_status, message) ==
    [status_code |-> status_code, response_status |-> response_status,
     message |-> message]

\* RuntimeError("No available API keys") of get_keys.
NoKeysError == Error(None, None, {"no available api keys"})

\* Mutant: 'invalid' in the message read as a bad request.
extract_error_code_invalid_is_400(error) ==
    IF error.status_code # None THEN error.status_code
    ELSE IF error.response_status # None THEN error.response_status
    ELSE IF "quota" \in error.message \/ "rate limit" \in error.message THEN 429
    ELSE IF "unauthorized" \in error.message THEN 401
    ELSE IF "invalid" \in error.message THEN 400
    ELSE IF "forbidden" \in error.message THEN 403
    ELSE IF "not found" \in error.message THEN 404
    ELSE 500

\* _extract_error_code.
extract_error_code(error) ==
    IF error.status_code # None THEN error.status_code
    ELSE IF error.response_status # None THEN error.response_status
    ELSE IF "quota" \in error.message \/ "rate limit" \in error.message THEN 429
    ELSE IF "unauthorized" \in error.message \/ "invalid" \in error.message THEN 401
    ELSE IF "forbidden" \in error.message THEN 403
    ELSE IF "not found" \in error.message THEN 404
    ELSE IF "server error" \in error.message \/ "internal" \in error.message THEN 500
    ELSE 500

\* The exceptions the operations of the model raise.
Messages == {{}, {"invalid"}, {"quota", "invalid"}, {"not found"}}

MessageErrors == {Error(None, None, m) : m \in Messages}

StatusErrors == {Error(FatalCode, None, {}), Error(None, 429, {"invalid"})}

Errors == MessageErrors \cup StatusErrors

\* Mutant: one attempt more.
attempt_range_one_more(max_retries) == 0..max_retries + 1

\* range(self.max_retries + 1).
attempt_range(max_retries) == 0..max_retries

\* execute_with_retry run by thread t.  pc is the attempt the loop is at,
\* arg is _current_key and local holds last_error.  An attempt is one pass
\* of the loop body; Advance between two attempts is the sleep of
\* _handle_error.
execute_with_retry_begin(t) ==
    /\ threads[t].op = "idle"
    /\ calls < RetryCalls
    /\ calls' = calls + 1
    /\ threads' = [threads EXCEPT ![t] =
                      [op |-> "execute_with_retry", pc |-> 0,
                       arg |-> threads[t].arg, local |-> <<>>]]
    /\ UNCHANGED <<keys, keys_set, db, import_history, available_keys_list,
                   auto_success, now, clock, last_selection_time, ret, fatal>>

InAttempt(t) ==
    /\ threads[t].op = "execute_with_retry"
    /\ threads[t].pc \in attempt_range(MaxRetries)

\* The Index after the get_keys(1) of get_single_key.
acquired_keys(window) ==
    LET used == mark_selected_used(keys, <<window[1]>>, now)
    IN  IF auto_success
          THEN mark_all_success(used, keys_set, <<window[1]>>, now)
          ELSE used

\* An attempt in which get_single_key raises: api_key stays None and
\* _handle_error is not called.
attempt_without_key(t) ==
    /\ InAttempt(t)
    /\ update_weight_distribution(keys, now) = <<>>
    /\ available_keys_list' = <<>>
    /\ threads' = [threads EXCEPT ![t].pc = @ + 1, ![t].local = <<NoKeysError>>]
    /\ UNCHANGED <<keys, keys_set, db, import_history, auto_success, now, clock, last_selection_time,
                   ret, fatal, calls>>

\* An attempt in which the operation returns: _mark_key_success, return.
attempt_succeeds(t) ==
    /\ InAttempt(t)
    /\ LET window == update_weight_distribution(keys, now)
       IN  /\ window # <<>>
           /\ available_keys_list' = window
           /\ keys' = mark_key_success(acquired_keys(window), keys_set, window[1], now)
           /\ threads' = [threads EXCEPT ![t] =
                             [op |-> "idle", pc |-> 0, arg |-> window[1],
                              local |-> <<>>]]
           /\ ret' = Ret("execute_with_retry", TRUE, <<window[1]>>, <<>>)
    /\ UNCHANGED <<keys_set, db, import_history, auto_success, now, clock, last_selection_time, fatal, calls>>

\* Mutant: the error reported twice for the key.
attempt_fails_reports_twice(t, error) ==
    /\ InAttempt(t)
    /\ LET window == update_weight_distribution(keys, now)
           api_key == window[1]
           error_code == extract_error_code(error)
           once == km_update_key_health(acquired_keys(window), keys_set, api_key,
                                        error_code, FALSE, now)
           ks == km_update_key_health(once, keys_set, api_key,
                                      error_code, FALSE, now)
           i == get_key_by_value(ks, keys_set, api_key)
       IN  /\ window # <<>>
           /\ keys' = ks
           /\ db' = IF i = 0 THEN db ELSE update_key(db, ks[i], now)
           /\ available_keys_list' =
                 IF error_code = FatalCode
                   THEN update_weight_distribution(ks, now)
                   ELSE window
           /\ fatal' = IF i # 0 /\ error_code = FatalCode
                         THEN fatal \cup {api_key} ELSE fatal
           /\ threads' = [threads EXCEPT ![t].pc = @ + 1, ![t].arg = api_key,
                                         ![t].local = <<error>>]
    /\ UNCHANGED <<keys_set, import_history, auto_success, now, clock, last_selection_time, ret, calls>>

\* An attempt in which the operation raises: last_error = e, then
\* _handle_error reports the extracted code for the key.
attempt_fails(t, error) ==
    /\ InAttempt(t)
    /\ LET window == update_weight_distribution(keys, now)
           api_key == window[1]
           error_code == extract_error_code(error)
           ks == km_update_key_health(acquired_keys(window), keys_set, api_key,
                                      error_code, FALSE, now)
           i == get_key_by_value(ks, keys_set, api_key)
       IN  /\ window # <<>>
           /\ keys' = ks
           /\ db' = IF i = 0 THEN db ELSE update_key(db, ks[i], now)
           /\ available_keys_list' =
                 IF error_code = FatalCode
                   THEN update_weight_distribution(ks, now)
                   ELSE window
           /\ fatal' = IF i # 0 /\ error_code = FatalCode
                         THEN fatal \cup {api_key} ELSE fatal
           /\ threads' = [threads EXCEPT ![t].pc = @ + 1, ![t].arg = api_key,
                                         ![t].local = <<error>>]
    /\ UNCHANGED <<keys_set, import_history, auto_success, now, clock, last_selection_time, ret, calls>>

\* After the loop: `raise last_error`.
raise_last_error(t) ==
    /\ threads[t].op = "execute_with_retry"
    /\ threads[t].pc \notin attempt_range(MaxRetries)
    /\ ret' = Raised("execute_with_retry", threads[t].local[1])
    /\ threads' = [threads EXCEPT ![t] =
                      [op |-> "idle", pc |-> 0, arg |-> threads[t].arg,
                       local |-> <<>>]]
    /\ UNCHANGED <<keys, keys_set, db, import_history, available_keys_list,
                   auto_success, now, clock, last_selection_time, fatal, calls>>

NextRetry ==
    \/ Advance
    \/ execute_with_retry_begin("t1")
    \/ attempt_without_key("t1")
    \/ attempt_succeeds("t1")
    \/ \E error \in Errors : attempt_fails("t1", error)
    \/ raise_last_error("t1")

SpecRetry == Init /\ [][NextRetry]_vars

\* ------------------------------------------------- calls the Store fails
\* The calls of the Index during which a statement of the Store raises
\* (sqlite3.OperationalError, sqlite3.DatabaseError: the disk, a locked or
\* corrupt file).  A statement that raises commits nothing.

\* Construction over a table whose load may have failed: _load_from_database
\* catches the exception and starts with an empty Index.
FaultInit ==
    /\ \E f \in PriorTables : db = PriorTable(f)
    /\ keys \in {load_from_database(db), <<>>}
    /\ keys_set = KeySetOf(keys)
    /\ import_history = <<>>
    /\ now = 0
    /\ available_keys_list = update_weight_distribution(keys, now)
    /\ auto_success \in BOOLEAN
    /\ ret = Ret("init", TRUE, <<>>, <<>>)
    /\ fatal = {k \in keys_set : db[k].is_available = 0}
    /\ calls = 0
    /\ threads = [t \in Threads |-> Idle]
    /\ clock = StartClock
    /\ last_selection_time = 0

\* reload_keys while get_all_keys raises: the except branch of
\* _load_from_database, then the window refresh.
reload_keys_fails ==
    /\ Call
    /\ keys' = <<>>
    /\ keys_set' = {}
    /\ available_keys_list' = update_weight_distribution(keys', now)
    /\ fatal' = {}
    /\ ret' = Ret("reload_keys", TRUE, <<>>, <<>>)
    /\ UNCHANGED <<db, import_history, auto_success, now, clock, last_selection_time>>

\* add_key while insert_key raises something other than IntegrityError.
add_key_fails(key_value, weight, source) ==
    /\ Call
    /\ key_value \notin keys_set
    /\ ret' = Raised("add_key", "StorageError")
    /\ UNCHANGED <<keys, keys_set, db, import_history, available_keys_list,
                   auto_success, now, clock, last_selection_time, fatal>>

\* remove_key while delete_key raises.
remove_key_fails(key_value) ==
    /\ Call
    /\ key_value \in keys_set
    /\ ret' = Raised("remove_key", "StorageError")
    /\ UNCHANGED <<keys, keys_set, db, import_history, available_keys_list,
                   auto_success, now, clock, last_selection_time, fatal>>

\* Mutant: the health report returns normally when update_key has raised.
update_key_health_fails_quietly(key_value, error_code, success) ==
    /\ Call
    /\ get_key_by_value(keys, keys_set, key_value) # 0
    /\ keys' = km_update_key_health(keys, keys_set, key_value, error_code, success, now)
    /\ fatal' = IF ~success /\ error_code = FatalCode
                  THEN fatal \cup {key_value} ELSE fatal
    /\ ret' = Ret("update_key_health", TRUE, <<>>, <<>>)
    /\ UNCHANGED <<keys_set, db, import_history, available_keys_list,
                   auto_success, now, clock, last_selection_time>>

\* update_key_health while update_key raises: the record is already marked,
\* the row is not written and the balancer's window refresh is not reached.
update_key_health_fails(key_value, error_code, success) ==
    /\ Call
    /\ get_key_by_value(keys, keys_set, key_value) # 0
    /\ keys' = km_update_key_health(keys, keys_set, key_value, error_code, success, now)
    /\ fatal' = IF ~success /\ error_code = FatalCode
                  THEN fatal \cup {key_value} ELSE fatal
    /\ ret' = Raised("update_key_health", "StorageError")
    /\ UNCHANGED <<keys_set, db, import_history, available_keys_list,
                   auto_success, now, clock, last_selection_time>>

NextFault ==
    \/ Advance
    \/ \E k \in KeyValues : calls < FaultCalls /\ update_key_health(k, None, TRUE)
    \/ \E k \in KeyValues, code \in ErrorCodes :
          calls < FaultCalls /\ update_key_health(k, code, FALSE)
    \/ calls < FaultCalls /\ reload_keys
    \/ \E k \in KeyValues, w \in AddWeights :
          calls < FaultCalls /\ add_key(k, w, "manual")
    \/ \E k \in KeyValues : calls < FaultCalls /\ remove_key(k)
    \/ \E k \in KeyValues : calls < FaultCalls /\ update_key_health_fails(k, None, TRUE)
    \/ \E k \in KeyValues, code \in ErrorCodes :
          calls < FaultCalls /\ update_key_health_fails(k, code, FALSE)
    \/ calls < FaultCalls /\ reload_keys_fails
    \/ \E k \in KeyValues, w \in AddWeights :
          calls < FaultCalls /\ add_key_fails(k, w, "manual")
    \/ \E k \in KeyValues : calls < FaultCalls /\ remove_key_fails(k)

SpecFault == FaultInit /\ [][NextFault]_vars

\* --------------------------------------------- Index changes by threads
\* add_key, remove_key and _load_from_database run by several callers.
\* None of the three takes the manager's lock, so a step is one read or
\* write of self.keys or self.keys_set, or one call of the Store (which
\* holds the Store's lock for that call).  A thread's arg is the value it
\* adds or removes and its local holds what it has built so far.
Callers == Threads \ {"worker"}

\* A thread's call has returned.
index_return(t, op, ok) ==
    /\ threads' = [threads EXCEPT ![t] = Idle]
    /\ ret' = Ret(op, ok, <<>>, <<>>)

index_goto(t, op, pc, k, local) ==
    /\ threads' = [threads EXCEPT ![t] =
                      [op |-> op, pc |-> pc, arg |-> k, local |-> local]]
    /\ UNCHANGED ret

\* add_key: `if key_value in self.keys_set: return False`, then APIKey(...).
add_key_check(t, key_value) ==
    /\ threads[t] = Idle
    /\ calls < IndexCalls
    /\ calls' = calls + 1
    /\ IF key_value \in keys_set
         THEN index_return(t, "add_key", FALSE)
         ELSE index_goto(t, "add_key", 2, key_value,
                         <<NewAPIKey(key_value, DefaultWeight, "manual", now)>>)
    /\ UNCHANGED <<keys, keys_set, db, import_history, available_keys_list,
                   auto_success, now, clock, last_selection_time, fatal>>

\* add_key: `if self.key_store.insert_key(new_key):`.
add_key_insert(t) ==
    /\ threads[t].op = "add_key"
    /\ threads[t].pc = 2
    /\ LET new_key == threads[t].local[1]
       IN  IF insert_ok(db, new_key)
             THEN /\ db' = insert_key(db, new_key, now)
                  /\ index_goto(t, "add_key", 3, threads[t].arg, threads[t].local)
             ELSE /\ db' = db
                  /\ index_return(t, "add_key", FALSE)
    /\ UNCHANGED <<keys, keys_set, import_history, available_keys_list,
                   auto_success, now, clock, last_selection_time, fatal, calls>>

\* add_key: `self.keys.append(new_key)`.
add_key_append(t) ==
    /\ threads[t].op = "add_key"
    /\ threads[t].pc = 3
    /\ keys' = Append(keys, threads[t].local[1])
    /\ index_goto(t, "add_key", 4, threads[t].arg, threads[t].local)
    /\ UNCHANGED <<keys_set, db, import_history, available_keys_list,
                   auto_success, now, clock, last_selection_time, fatal, calls>>

\* add_key: `self.keys_set.add(key_value)`, `return True`.
add_key_set(t) ==
    /\ threads[t].op = "add_key"
    /\ threads[t].pc = 4
    /\ keys_set' = keys_set \cup {threads[t].arg}
    /\ index_return(t, "add_key", TRUE)
    /\ UNCHANGED <<keys, db, import_history, available_keys_list,
                   auto_success, now, clock, last_selection_time, fatal, calls>>

\* remove_key: `if key_value not in self.keys_set: return False`.
remove_key_check(t, key_value) ==
    /\ threads[t] = Idle
    /\ calls < IndexCalls
    /\ calls' = calls + 1
    /\ IF key_value \notin keys_set
         THEN index_return(t, "remove_key", FALSE)
         ELSE index_goto(t, "remove_key", 2, key_value, <<>>)
    /\ UNCHANGED <<keys, keys_set, db, import_history, available_keys_list,
                   auto_success, now, clock, last_selection_time, fatal>>

\* remove_key: `if self.key_store.delete_key(key_value):`.
remove_key_delete(t) ==
    /\ threads[t].op = "remove_key"
    /\ threads[t].pc = 2
    /\ IF delete_ok(db, threads[t].arg)
         THEN /\ db' = delete_key(db, threads[t].arg)
              /\ index_goto(t, "remove_key", 3, threads[t].arg, <<>>)
         ELSE /\ db' = db
              /\ index_return(t, "remove_key", FALSE)
    /\ UNCHANGED <<keys, keys_set, import_history, available_keys_list,
                   auto_success, now, clock, last_selection_time, fatal, calls>>

\* remove_key: `self.keys = [k for k in self.keys if k.key != key_value]`.
remove_key_filter(t) ==
    /\ threads[t].op = "remove_key"
    /\ threads[t].pc = 3
    /\ keys' = SelectSeq(keys, LAMBDA k : k.key # threads[t].arg)
    /\ index_goto(t, "remove_key", 4, threads[t].arg, <<>>)
    /\ UNCHANGED <<keys_set, db, import_history, available_keys_list,
                   auto_success, now, clock, last_selection_time, fatal, calls>>

\* remove_key: `self.keys_set.remove(key_value)`, which raises KeyError for
\* a value the set does not hold, then `return True`.
remove_key_set(t) ==
    /\ threads[t].op = "remove_key"
    /\ threads[t].pc = 4
    /\ IF threads[t].arg \in keys_set
         THEN /\ keys_set' = keys_set \ {threads[t].arg}
              /\ index_return(t, "remove_key", TRUE)
         ELSE /\ keys_set' = keys_set
              /\ threads' = [threads EXCEPT ![t] = Idle]
              /\ ret' = Raised("remove_key", "KeyError")
    /\ UNCHANGED <<keys, db, import_history, available_keys_list,
                   auto_success, now, clock, last_selection_time, fatal, calls>>

\* reload_keys, in _load_from_database: `self.key_store.get_all_keys()`.
reload_keys_read(t) ==
    /\ threads[t] = Idle
    /\ calls < IndexCalls
    /\ calls' = calls + 1
    /\ index_goto(t, "reload_keys", 2, 0, get_all_keys(db))
    /\ UNCHANGED <<keys, keys_set, db, import_history, available_keys_list,
                   auto_success, now, clock, last_selection_time, fatal>>

\* _load_from_database: `self.keys = ...`.
reload_keys_assign(t) ==
    /\ threads[t].op = "reload_keys"
    /\ threads[t].pc = 2
    /\ keys' = threads[t].local
    /\ index_goto(t, "reload_keys", 3, 0, <<>>)
    /\ UNCHANGED <<keys_set, db, import_history, available_keys_list,
                   auto_success, now, clock, last_selection_time, fatal, calls>>

\* _load_from_database: `self.keys_set = {key.key for key in self.keys}`,
\* then the window refresh of reload_keys.
reload_keys_set(t) ==
    /\ threads[t].op = "reload_keys"
    /\ threads[t].pc = 3
    /\ keys_set' = KeySetOf(keys)
    /\ available_keys_list' = update_weight_distribution(keys, now)
    /\ index_return(t, "reload_keys", TRUE)
    /\ UNCHANGED <<keys, db, import_history, auto_success, now, clock, last_selection_time, fatal, calls>>

NextIndex ==
    \/ Advance
    \/ \E t \in Callers, k \in KeyValues : add_key_check(t, k)
    \/ \E t \in Callers : add_key_insert(t)
    \/ \E t \in Callers : add_key_append(t)
    \/ \E t \in Callers : add_key_set(t)
    \/ \E t \in Callers, k \in KeyValues : remove_key_check(t, k)
    \/ \E t \in Callers : remove_key_delete(t)
    \/ \E t \in Callers : remove_key_filter(t)
    \/ \E t \in Callers : remove_key_set(t)
    \/ \E t \in Callers : reload_keys_read(t)
    \/ \E t \in Callers : reload_keys_assign(t)
    \/ \E t \in Callers : reload_keys_set(t)

SpecIndex == Init /\ [][NextIndex]_vars

\* ---------------------------------------------------- acquires by threads
\* get_keys(count), count >= 1, run by several callers while others report
\* health or remove.  KeyBalancer takes no lock: between two statements of
\* get_keys another thread may rebind _available_keys_list.  A thread's arg
\* is its count and its local the keys it has selected.
get_keys_refresh(t, count) ==
    /\ threads[t] = Idle
    /\ calls < SelectCalls
    /\ calls' = calls + 1
    /\ available_keys_list' = update_weight_distribution(keys, now)
    /\ index_goto(t, "get_keys", 2, count, <<>>)
    /\ UNCHANGED <<keys, keys_set, db, import_history, auto_success, now, clock, last_selection_time, fatal>>

\* `if not self._available_keys_list: raise RuntimeError(...)`.
get_keys_check(t) ==
    /\ threads[t].op = "get_keys"
    /\ threads[t].pc = 2
    /\ IF available_keys_list = <<>>
         THEN index_return(t, "get_keys", FALSE)
         ELSE index_goto(t, "get_keys", 3, threads[t].arg, <<>>)
    /\ UNCHANGED <<keys, keys_set, db, import_history, available_keys_list,
                   auto_success, now, clock, last_selection_time, fatal, calls>>

\* The clamp of count and the selection from the list.
get_keys_select(t) ==
    /\ threads[t].op = "get_keys"
    /\ threads[t].pc = 3
    /\ LET cnt == IF threads[t].arg > Len(available_keys_list)
                    THEN Len(available_keys_list) ELSE threads[t].arg
       IN  index_goto(t, "get_keys", 4, cnt, select_keys(available_keys_list, cnt))
    /\ UNCHANGED <<keys, keys_set, db, import_history, available_keys_list,
                   auto_success, now, clock, last_selection_time, fatal, calls>>

\* The loop that marks the selected keys as used, auto-success, return.
get_keys_mark(t) ==
    /\ threads[t].op = "get_keys"
    /\ threads[t].pc = 4
    /\ LET selected_keys == threads[t].local
           used == mark_selected_used(keys, selected_keys, now)
       IN  /\ keys' = IF auto_success
                        THEN mark_all_success(used, keys_set, selected_keys, now)
                        ELSE used
           /\ threads' = [threads EXCEPT ![t] = Idle]
           /\ ret' = Ret("get_keys", TRUE, selected_keys, <<>>)
    /\ UNCHANGED <<keys_set, db, import_history, available_keys_list,
                   auto_success, now, clock, last_selection_time, fatal, calls>>

NextSelect ==
    \/ Advance
    \/ \E t \in Callers, count \in 1..MaxKeys : get_keys_refresh(t, count)
    \/ \E t \in Callers : get_keys_check(t)
    \/ \E t \in Callers : get_keys_select(t)
    \/ \E t \in Callers : get_keys_mark(t)
    \/ \E k \in KeyValues, code \in ErrorCodes :
          calls < SelectCalls /\ update_key_health(k, code, FALSE)
    \/ \E k \in KeyValues : calls < SelectCalls /\ remove_key(k)

SpecSelect == Init /\ [][NextSelect]_vars

\* ------------------------------------------- reports during a reload
\* Health reports and flushes made by one caller while another is inside
\* _load_from_database, which takes no lock: the report and the flush run
\* between two statements of the reload.
NextReport ==
    \/ Advance
    \/ \E t \in Callers : reload_keys_read(t)
    \/ \E t \in Callers : reload_keys_assign(t)
    \/ \E t \in Callers : reload_keys_set(t)
    \/ \E k \in KeyValues, code \in ErrorCodes : update_key_health(k, code, FALSE)
    \/ save_state_now

SpecReport == Init /\ [][NextReport]_vars

\* ------------------------------------------------------- flushes by threads
\* _save_state run by several threads, one update_key (which holds the
\* Store's lock) at a time: by the auto-save worker on a tick, by a caller
\* in save_state_now, by a caller in reset_all_weights.  _save_state takes
\* no lock of its own; reset_all_weights holds the manager's lock, which
\* neither of the others asks for.  A thread's pc is the index of the
\* record it writes next, its arg flips at each flush it starts, and its
\* local holds how its last flush ended.
FlushOps == {"auto_save", "save_state_now", "reset_all_weights"}

OpsOf(t) == IF t = "worker" THEN {"auto_save"}
            ELSE {"save_state_now", "reset_all_weights"}

\* Mutant: the worker's thread ends when its flush has failed.
flush_end_worker_exits(t, result) ==
    /\ threads' = [threads EXCEPT ![t] =
                      [op |-> IF t = "worker" /\ result = "failed"
                                THEN "exited" ELSE "idle",
                       pc |-> 0, arg |-> threads[t].arg, local |-> <<result>>]]
    /\ ret' = IF t = "worker" THEN ret
              ELSE Ret(threads[t].op, TRUE, <<>>, <<>>)
    /\ available_keys_list' =
          IF threads[t].op = "reset_all_weights"
            THEN update_weight_distribution(keys, now)
            ELSE available_keys_list

\* The thread's _save_state has ended; the call it was in returns.
flush_end(t, result) ==
    /\ threads' = [threads EXCEPT ![t] = [op |-> "idle", pc |-> 0,
                                          arg |-> threads[t].arg,
                                          local |-> <<result>>]]
    /\ ret' = IF t = "worker" THEN ret
              ELSE Ret(threads[t].op, TRUE, <<>>, <<>>)
    /\ available_keys_list' =
          IF threads[t].op = "reset_all_weights"
            THEN update_weight_distribution(keys, now)
            ELSE available_keys_list

\* The manager's lock is held by a thread inside reset_all_weights.
LockHolders == {u \in Threads : threads[u].op = "reset_all_weights"}

\* The thread enters its call and reaches the loop of _save_state.
flush_begin(t, op) ==
    /\ threads[t].op = "idle"
    /\ op \in OpsOf(t)
    /\ op = "reset_all_weights" => LockHolders = {}
    /\ IF t = "worker" THEN UNCHANGED calls
       ELSE calls < FlushCalls /\ calls' = calls + 1
    /\ keys' = IF op = "reset_all_weights" THEN reset_all(keys) ELSE keys
    /\ fatal' = IF op = "reset_all_weights" THEN {} ELSE fatal
    /\ IF keys = <<>>
         THEN /\ threads' = [threads EXCEPT ![t].arg = 1 - @, ![t].local = <<"saved">>]
              /\ ret' = IF t = "worker" THEN ret ELSE Ret(op, TRUE, <<>>, <<>>)
              /\ available_keys_list' =
                    IF op = "reset_all_weights"
                      THEN update_weight_distribution(keys, now)
                      ELSE available_keys_list
         ELSE /\ threads' = [threads EXCEPT ![t] = [op |-> op, pc |-> 1,
                                                    arg |-> 1 - threads[t].arg,
                                                    local |-> threads[t].local]]
              /\ UNCHANGED <<ret, available_keys_list>>
    /\ UNCHANGED <<keys_set, db, import_history, auto_success, now, clock, last_selection_time>>

\* One update_key of the thread's loop.
flush_write(t) ==
    /\ threads[t].op \in FlushOps
    /\ threads[t].pc \in DOMAIN keys
    /\ db' = update_key(db, keys[threads[t].pc], now)
    /\ IF threads[t].pc = Len(keys)
         THEN flush_end(t, "saved")
         ELSE /\ threads' = [threads EXCEPT ![t].pc = @ + 1]
              /\ UNCHANGED <<ret, available_keys_list>>
    /\ UNCHANGED <<keys, keys_set, import_history, auto_success, now, clock, last_selection_time, fatal, calls>>

\* One update_key of the thread's loop raises; _save_state catches the
\* exception, prints it and returns.
flush_write_fails(t) ==
    /\ threads[t].op \in FlushOps
    /\ threads[t].pc \in DOMAIN keys
    /\ flush_end(t, "failed")
    /\ UNCHANGED <<keys, keys_set, db, import_history, auto_success, now, clock, last_selection_time, fatal, calls>>

NextFlush ==
    \/ Advance
    \/ \E t \in Threads, op \in FlushOps : flush_begin(t, op)
    \/ \E t \in Threads : flush_write(t)
    \/ \E t \in Threads : flush_write_fails(t)

SpecFlush == Init /\ [][NextFlush]_vars

\* The worker's loop is `while True: sleep; _save_state()`: its sleep
\* returns and each of its Store calls returns or raises.
SpecFlushLive ==
    /\ SpecFlush
    /\ WF_vars(flush_begin("worker", "auto_save"))
    /\ WF_vars(flush_write("worker") \/ flush_write_fails("worker"))

\* ------------------------------------------------------ reports by threads
\* Error reports for one credential made by several callers while the
\* auto-save worker flushes.  KeyManager.update_key_health runs under the
\* manager's lock: the lookup, mark_error (which reads the record's
\* counters and then writes them) and update_key.  The window refresh of
\* KeyBalancer.update_key_health follows the release of the lock.  A
\* thread's arg is the code it reports and its local the record as
\* mark_error read it.
\* The credential the reports are made for: the first key value.
ReportedKey == CHOOSE k \in KeyValues : \A j \in KeyValues : k <= j

ReportInit ==
    /\ \E f \in [KeyValues -> {"fresh", "used"}] :
          db = PriorTable([k \in KeyValues |-> PriorKey(k, f[k])])
    /\ keys = load_from_database(db)
    /\ keys_set = KeySetOf(keys)
    /\ import_history = <<>>
    /\ now = 0
    /\ available_keys_list = update_weight_distribution(keys, now)
    /\ auto_success \in BOOLEAN
    /\ ret = Ret("init", TRUE, <<>>, <<>>)
    /\ fatal = {}
    /\ calls = 0
    /\ threads = [t \in Threads |-> Idle]
    /\ clock = StartClock
    /\ last_selection_time = 0

\* Mutant: the manager's lock is never held.
manager_lock_free_always(t) == TRUE

\* No other thread is inside `with self.lock` of update_key_health.
manager_lock_free(t) ==
    \A u \in Threads \ {t} : threads[u].op # "update_key_health"

\* `with self.lock`, get_key_by_value, and the reads of mark_error.
report_begin(t, error_code) ==
    /\ threads[t].op = "idle"
    /\ calls < ReportCalls
    /\ calls' = calls + 1
    /\ manager_lock_free(t)
    /\ LET i == get_key_by_value(keys, keys_set, ReportedKey)
       IN  /\ i # 0
           /\ index_goto(t, "update_key_health", 2, error_code, <<keys[i]>>)
    /\ UNCHANGED <<keys, keys_set, db, import_history, available_keys_list,
                   auto_success, now, clock, last_selection_time, fatal>>

\* The writes of mark_error.
report_mark(t) ==
    /\ threads[t].op = "update_key_health"
    /\ threads[t].pc = 2
    /\ LET i == get_key_by_value(keys, keys_set, ReportedKey)
       IN  keys' = [keys EXCEPT ![i] = mark_error(threads[t].local[1],
                                                   threads[t].arg, now)]
    /\ index_goto(t, "update_key_health", 3, threads[t].arg, <<>>)
    /\ UNCHANGED <<keys_set, db, import_history, available_keys_list,
                   auto_success, now, clock, last_selection_time, fatal, calls>>

\* update_key, the release of the lock, the window refresh, return.
report_write(t) ==
    /\ threads[t].op = "update_key_health"
    /\ threads[t].pc = 3
    /\ LET i == get_key_by_value(keys, keys_set, ReportedKey)
       IN  db' = update_key(db, keys[i], now)
    /\ available_keys_list' =
          IF threads[t].arg = FatalCode
            THEN update_weight_distribution(keys, now)
            ELSE available_keys_list
    /\ fatal' = IF threads[t].arg = FatalCode
                  THEN fatal \cup {ReportedKey} ELSE fatal
    /\ index_return(t, "update_key_health", TRUE)
    /\ UNCHANGED <<keys, keys_set, import_history, auto_success, now, clock, last_selection_time, calls>>

NextErrors ==
    \/ Advance
    \/ \E t \in Callers, code \in ErrorCodes : report_begin(t, code)
    \/ \E t \in Callers : report_mark(t)
    \/ \E t \in Callers : report_write(t)
    \/ flush_begin("worker", "auto_save")
    \/ flush_write("worker")
    \/ flush_write_fails("worker")

SpecErrors == ReportInit /\ [][NextErrors]_vars

\* ------------------------------------------- flushes during a removal
\* _save_state while remove_key and health reports run.  `for key in
\* self.keys` walks the list that was bound when the loop started, which
\* remove_key replaces and does not change; the records in it are the
\* objects of the Index, read when they are written.  A thread's local is
\* that list, its pc the position in it, and its arg is 1 once an UPDATE of
\* this flush has matched no row.
SaveOps == {"auto_save", "save_state_now"}

\* Mutant: the UPDATE adds the row it does not find.
update_key_or_insert(d, key, t) ==
    IF key.key \in DOMAIN d THEN update_key(d, key, t)
    ELSE insert_key(d, key, t)

\* update_key as _save_state calls it.
save_update_key(d, key, t) == update_key(d, key, t)

save_state_begin(t) ==
    /\ threads[t].op = "idle"
    /\ IF t = "worker" THEN UNCHANGED calls
       ELSE calls < IndexCalls /\ calls' = calls + 1
    /\ LET op == IF t = "worker" THEN "auto_save" ELSE "save_state_now"
       IN  IF keys = <<>>
             THEN /\ threads' = [threads EXCEPT ![t] =
                                   [op |-> "idle", pc |-> 0, arg |-> 0, local |-> <<>>]]
                  /\ ret' = IF t = "worker" THEN ret ELSE Ret(op, TRUE, <<>>, <<>>)
             ELSE /\ threads' = [threads EXCEPT ![t] =
                                   [op |-> op, pc |-> 1, arg |-> 0, local |-> keys]]
                  /\ UNCHANGED ret
    /\ UNCHANGED <<keys, keys_set, db, import_history, available_keys_list,
                   auto_success, now, clock, last_selection_time, fatal>>

\* One pass of the loop: update_key for the next record of the list.
save_state_write(t) ==
    /\ threads[t].op \in SaveOps
    /\ threads[t].pc \in DOMAIN threads[t].local
    /\ LET old == threads[t].local[threads[t].pc]
           i == get_key_by_value(keys, KeySetOf(keys), old.key)
           key == IF i = 0 THEN old ELSE keys[i]
           missed == IF key.key \in DOMAIN db THEN threads[t].arg ELSE 1
       IN  /\ db' = save_update_key(db, key, now)
           /\ IF threads[t].pc = Len(threads[t].local)
                THEN /\ threads' = [threads EXCEPT ![t] =
                                      [op |-> "idle", pc |-> 0, arg |-> missed,
                                       local |-> <<>>]]
                     /\ ret' = IF t = "worker" THEN ret
                               ELSE Ret(threads[t].op, TRUE, <<>>, <<>>)
                ELSE /\ threads' = [threads EXCEPT ![t].pc = @ + 1,
                                                   ![t].arg = missed]
                     /\ UNCHANGED ret
    /\ UNCHANGED <<keys, keys_set, import_history, available_keys_list,
                   auto_success, now, clock, last_selection_time, fatal, calls>>

NextRemove ==
    \/ Advance
    \/ \E k \in KeyValues : remove_key_check("t1", k)
    \/ remove_key_delete("t1")
    \/ remove_key_filter("t1")
    \/ remove_key_set("t1")
    \/ \E t \in {"t2", "worker"} : save_state_begin(t)
    \/ \E t \in {"t2", "worker"} : save_state_write(t)
    \/ \E k \in KeyValues, code \in ErrorCodes :
          calls < IndexCalls /\ update_key_health(k, code, FALSE)

SpecRemove == Init /\ [][NextRemove]_vars

\* ------------------------------------------------------- paced acquires
\* get_keys with its rate limit, run by one caller.  clock is time.time()
\* in hundredths of a second; a run here lasts less than a second, so the
\* datetime clock `now`, which counts in steps of ClockStep seconds, stays
\* where it is.
Tick ==
    /\ clock < MaxClock
    /\ clock' = clock + 1
    /\ UNCHANGED <<keys, keys_set, db, import_history, available_keys_list,
                   auto_success, now, ret, fatal, calls, threads,
                   last_selection_time>>

\* Mutant: no sleep.
sleep_for_nothing(current_time, last) == 0

\* The argument of time.sleep.
sleep_for(current_time, last) == MinSelectionInterval - (current_time - last)

\* get_keys(count); a sleep lasts `over` longer than it was asked to, and
\* the caller's record keeps current_time, the time the call read on arrival.
get_keys_paced(count, over) ==
    /\ calls < RateCalls
    /\ calls' = calls + 1
    /\ LET window == update_weight_distribution(keys, now)
           cnt == IF count > Len(window) THEN Len(window) ELSE count
           selected_keys == select_keys(window, cnt)
           used == mark_selected_used(keys, selected_keys, now)
           current_time == clock
           sleeps == current_time - last_selection_time < MinSelectionInterval
       IN  IF count <= 0
             THEN /\ over = 0
                  /\ ret' = Ret("get_keys", TRUE, <<>>, <<>>)
                  /\ UNCHANGED <<keys, available_keys_list, clock,
                                 last_selection_time, threads>>
           ELSE IF window = <<>>
             THEN /\ over = 0
                  /\ ret' = Ret("get_keys", FALSE, <<>>, <<>>)
                  /\ available_keys_list' = window
                  /\ UNCHANGED <<keys, clock, last_selection_time, threads>>
           ELSE /\ IF sleeps
                     THEN clock' = clock
                            + sleep_for(current_time, last_selection_time) + over
                     ELSE over = 0 /\ clock' = clock
                /\ last_selection_time' = clock'
                /\ threads' = [threads EXCEPT !["t1"].arg = current_time]
                /\ available_keys_list' = window
                /\ keys' = IF auto_success
                             THEN mark_all_success(used, keys_set, selected_keys, now)
                             ELSE used
                /\ ret' = Ret("get_keys", TRUE, selected_keys, <<>>)
    /\ UNCHANGED <<keys_set, db, import_history, auto_success, now, fatal>>

NextRate ==
    \/ Tick
    \/ \E count \in Counts, over \in 0..MaxOversleep : get_keys_paced(count, over)

SpecRate == Init /\ [][NextRate]_vars

\* ------------------------------------------------------------------ claims
\* The Index record of a key value.
Rec(ks, k) == ks[CHOOSE i \in DOMAIN ks : ks[i].key = k]

Live(ks) == {ks[i].key : i \in DOMAIN ks}

Returned == {ret.keys[i] : i \in DOMAIN ret.keys}

InRange(w) == MinWeight <= w /\ w <= MaxWeight

\* C1: every credential an acquire returns is one whose available flag is
\* true in the Index the eligible set was computed from.
C1_AcquireOnlyAvailable ==
    ret.op = "get_keys" =>
        \A k \in Returned : k \in Live(keys) /\ Rec(keys, k).is_available

\* An acquire returned credentials out of a pool that holds an unavailable one.
C1_Witness ==
    /\ ret.op = "get_keys"
    /\ Returned # {}
    /\ \E i \in DOMAIN keys : ~keys[i].is_available

\* C2: a credential that reported 400 and has not been reset since is in no
\* acquire's result.
C2_FatalNeverAcquired ==
    ret.op = "get_keys" => Returned \cap fatal = {}

\* An acquire returned credentials while a credential that reported 400 in
\* this run (at the later clock value) is still in the pool.
C2_Witness ==
    /\ ret.op = "get_keys"
    /\ Returned # {}
    /\ \E k \in fatal : k \in Live(keys) /\ Rec(keys, k).last_error = ClockStep

\* A health report of any outcome, for any key value.
ReportStep ==
    \E k \in KeyValues :
        \/ update_key_health(k, None, TRUE)
        \/ \E code \in ErrorCodes : update_key_health(k, code, FALSE)

\* C3: in any step the available flag of a credential that is live before
\* and after goes from true to false only if the step is an error report of
\* code 400 for it, and from false to true only if the step is a reset.
C3_AvailabilityTransitions ==
    [][\A k \in Live(keys) \cap Live(keys') :
          /\ (Rec(keys, k).is_available /\ ~Rec(keys', k).is_available)
                => update_key_health(k, FatalCode, FALSE)
          /\ (~Rec(keys, k).is_available /\ Rec(keys', k).is_available)
                => reset_all_weights]_vars

\* A credential made unavailable by a report in this run, then every
\* credential made available again by a reset.
C3_Witness ==
    /\ ret.op = "reset_all_weights"
    /\ \E i \in DOMAIN keys :
          /\ keys[i].is_available
          /\ keys[i].last_error = ClockStep
          /\ keys[i].error_count >= 1
          /\ db[keys[i].key].is_available = 1

\* C4: a success or error report, of any code, leaves the weight of every
\* credential whose weight was within [min_weight, max_weight] within it.
C4_ReportKeepsWeightInRange ==
    [][ReportStep =>
          \A i \in DOMAIN keys :
              InRange(keys[i].weight) => InRange(keys'[i].weight)]_vars

\* An error report has just clamped a weight at min_weight.
C4_Witness ==
    /\ ret.op = "update_key_health"
    /\ \E i \in DOMAIN keys :
          /\ keys[i].weight = MinWeight
          /\ keys[i].last_error = now
          /\ keys[i].consecutive_errors >= 1

\* C5 (as claimed): the weight of every credential in the Index lies within
\* [min_weight, max_weight] in every reachable state.
C5_WeightAlwaysInRange ==
    \A i \in DOMAIN keys : InRange(keys[i].weight)

\* The table holds, for every Index record, exactly the row insert_key
\* writes for it, and nothing else.
StoreHoldsIndex ==
    /\ DOMAIN db = Live(keys)
    /\ \A i \in DOMAIN keys : db[keys[i].key] = RowOf(keys[i], now)

\* C6 (as claimed): loading a table that holds what was written for the
\* Index records yields, for every credential, a record equal to the one
\* written in every field, source included.
C6_RoundTripIdentical ==
    [][(reload_keys /\ StoreHoldsIndex) =>
          \A k \in Live(keys) :
              k \in Live(keys') /\ Rec(keys', k) = Rec(keys, k)]_vars

AcquireCounts == Counts \ {0}

ReturnedNext == {ret'.keys[i] : i \in DOMAIN ret'.keys}

\* C7 (as claimed): in an acquire the window holds at most 5 candidates,
\* ordered with the never-used ones before every used one and the used ones
\* by ascending last_used (as they were when the call began), and every
\* returned credential is in the window.
C7_WindowNeverUsedFirst ==
    [][\A c \in AcquireCounts :
          (get_keys(c) /\ ret'.ok) =>
              LET w == available_keys_list'
                  lu(a) == Rec(keys, w[a]).last_used
              IN  /\ Len(w) <= WindowSize
                  /\ \A a, b \in DOMAIN w :
                        a < b =>
                          /\ ~(lu(a) # None /\ lu(b) = None)
                          /\ (lu(a) # None /\ lu(b) # None) => lu(a) <= lu(b)
                  /\ ReturnedNext \subseteq {w[a] : a \in DOMAIN w}]_vars

\* The claims' cooldown state: last_error within the last 300 seconds and
\* weight at most 0.2.
RecentlyDemoted(key, t) ==
    /\ key.last_error # None
    /\ t - key.last_error < CooldownSeconds
    /\ key.weight <= CooldownWeight

\* The eligible set: available and not excluded by the cooldown filter.
Eligible(ks, t) ==
    {ks[i].key : i \in {j \in DOMAIN ks :
                          ks[j].is_available /\ ~RecentlyDemoted(ks[j], t)}}

AvailableSet(ks) == {ks[i].key : i \in {j \in DOMAIN ks : ks[j].is_available}}

C11_ClampsToAvailableCount ==
    [][\A c \in PoolCounts :
          (get_keys(c) /\ AvailableSet(keys) # {}
                       /\ c > Cardinality(AvailableSet(keys))) =>
              /\ ret'.ok
              /\ Len(ret'.keys) = Cardinality(AvailableSet(keys))]_vars

\* Every available credential has never been used, and there are n >= 1 of them.
NeverUsedPool(ks, n) ==
    /\ Cardinality(AvailableSet(ks)) = n
    /\ n >= 1
    /\ \A i \in DOMAIN ks : ks[i].is_available => ks[i].last_used = None

\* The acquire returned each available credential exactly once and set the
\* last_used of each to the time of the call.
ReturnedAllOnce ==
    /\ ret'.ok
    /\ Len(ret'.keys) = Cardinality(AvailableSet(keys))
    /\ ReturnedNext = AvailableSet(keys)
    /\ \A k \in AvailableSet(keys) : Rec(keys', k).last_used = now

\* C12 (as claimed): on a pool whose n <= 5 available credentials have all
\* never been used, acquire(n) returns each of the n exactly once, and each
\* has last_used set afterwards.
C12_AcquireAllNeverUsed ==
    [][\A c \in PoolCounts :
          (get_keys(c) /\ c <= WindowSize /\ NeverUsedPool(keys, c)) =>
              ReturnedAllOnce]_vars

\* C12 (amended): the same, unless some but not all of the n credentials
\* are in the cooldown state.
C12_AcquireAllNeverUsedUniform ==
    [][\A c \in PoolCounts :
          (get_keys(c) /\ c <= WindowSize /\ NeverUsedPool(keys, c)
                       /\ Eligible(keys, now) \in {AvailableSet(keys), {}}) =>
              ReturnedAllOnce]_vars

\* An acquire returned all five available credentials of a pool of six, each
\* never used before (they carry the error report of a record that was never
\* acquired) and each now marked as used at the time of the call.
C12_Witness ==
    /\ ret.op = "get_keys"
    /\ Len(ret.keys) = WindowSize
    /\ Cardinality(Returned) = WindowSize
    /\ Returned = AvailableSet(keys)
    /\ Len(keys) > WindowSize
    /\ \A k \in Returned :
          /\ Rec(keys, k).last_used = now
          /\ Rec(keys, k).last_error # None

\* C13: when an acquire returns, every credential it returns is in the Index
\* with last_used equal to the time of the call, in auto-success mode and
\* out of it.
C13_ReturnedMarkedUsed ==
    [][\A c \in AcquireCounts :
          get_keys(c) =>
              \A k \in ReturnedNext :
                  k \in Live(keys') /\ Rec(keys', k).last_used = now]_vars

\* Outside auto-success mode, at the later clock value, an acquire returned
\* some credentials, now marked as used at that time, and left another one.
C13_Witness ==
    /\ ret.op = "get_keys"
    /\ ~auto_success
    /\ now = ClockStep
    /\ Returned # {}
    /\ \A k \in Returned : Rec(keys, k).last_used = now
    /\ \E i \in DOMAIN keys :
          keys[i].key \notin Returned /\ keys[i].last_used # now

\* C14 (as claimed): when the window holds more than one candidate, an
\* acquire of one credential can return any window member of positive
\* weight.
C14_AnyWindowMemberPossible ==
    LET window == update_weight_distribution(keys, now)
    IN  (calls < MaxCalls /\ Len(window) > 1) =>
            \A i \in DOMAIN window :
                Rec(keys, window[i]).weight > 0 =>
                    ENABLED (get_keys(1) /\ ret'.keys = <<window[i]>>)

\* C15: an error report for a live credential raises error_count and
\* consecutive_errors by one and sets last_error to the time of the report;
\* code 400 leaves the weight and clears available; the codes 403, 429, 500,
\* 502, 503, 504 make the weight max(min_weight, weight * 0.8) and any
\* other code max(min_weight, weight * 0.9), available unchanged.
C15_ErrorReportArithmetic ==
    [][\A k \in KeyValues, code \in ErrorCodes :
          (update_key_health(k, code, FALSE) /\ k \in Live(keys)) =>
              LET a == Rec(keys, k)
                  b == Rec(keys', k)
              IN  /\ b.error_count = a.error_count + 1
                  /\ b.consecutive_errors = a.consecutive_errors + 1
                  /\ b.last_error = now
                  /\ code = 400 => (b.weight = a.weight /\ ~b.is_available)
                  /\ code \in {403, 429, 500, 502, 503, 504} =>
                        /\ b.weight = Max(MinWeight, (a.weight * 8) \div 10)
                        /\ b.is_available = a.is_available
                  /\ code \notin {400, 403, 429, 500, 502, 503, 504} =>
                        /\ b.weight = Max(MinWeight, (a.weight * 9) \div 10)
                        /\ b.is_available = a.is_available]_vars

\* Three error reports in a row have taken a weight from 1.0 to 0.512.
C15_Witness ==
    /\ ret.op = "update_key_health"
    /\ \E i \in DOMAIN keys :
          /\ keys[i].weight = 512
          /\ keys[i].consecutive_errors = 3
          /\ keys[i].error_count = 3
          /\ keys[i].last_error = now

\* C16 (as claimed): a success report for a live credential sets
\* consecutive_errors to 0 and the weight to min(max_weight, weight * 1.1),
\* and leaves error_count, last_error and available as they were.
C16_SuccessReport ==
    [][\A k \in KeyValues :
          (update_key_health(k, None, TRUE) /\ k \in Live(keys)) =>
              LET a == Rec(keys, k)
                  b == Rec(keys', k)
              IN  /\ b.consecutive_errors = 0
                  /\ b.weight = Min(MaxWeight, (a.weight * 11) \div 10)
                  /\ b.error_count = a.error_count
                  /\ b.last_error = a.last_error
                  /\ b.is_available = a.is_available]_vars

\* The step is an error report for key value k.
ErrorReportFor(k) == \E code \in ErrorCodes : update_key_health(k, code, FALSE)

\* C17 (as claimed): for a credential live before and after a step, a
\* success report sets consecutive_errors to 0, an error report raises it by
\* one, and no step other than a success report lowers it or other than an
\* error report raises it.
C17_OnlySuccessLowers ==
    [][\A k \in Live(keys) \cap Live(keys') :
          LET a == Rec(keys, k).consecutive_errors
              b == Rec(keys', k).consecutive_errors
          IN  /\ update_key_health(k, None, TRUE) => b = 0
              /\ ErrorReportFor(k) => b = a + 1
              /\ b < a => update_key_health(k, None, TRUE)
              /\ b > a => ErrorReportFor(k)]_vars

\* C17 (amended): the same, with reset as the one other step that lowers
\* consecutive_errors.
C17_OnlySuccessOrResetLowers ==
    [][\A k \in Live(keys) \cap Live(keys') :
          LET a == Rec(keys, k).consecutive_errors
              b == Rec(keys', k).consecutive_errors
          IN  /\ update_key_health(k, None, TRUE) => b = 0
              /\ ErrorReportFor(k) => b = a + 1
              /\ b < a => (update_key_health(k, None, TRUE) \/ reset_all_weights)
              /\ b > a => ErrorReportFor(k)]_vars

\* A success report has cleared a run of two errors: the credential keeps
\* its two errors on record and the weight 0.25 * 0.8 * 0.8 * 1.1.
C17_Witness ==
    /\ ret.op = "update_key_health"
    /\ \E i \in DOMAIN keys :
          /\ keys[i].consecutive_errors = 0
          /\ keys[i].error_count = 2
          /\ keys[i].weight = 176

\* C18: a reset leaves the same credentials in the Index and the same rows
\* in the Store; every Index record gets weight 1.0, available true and
\* consecutive_errors 0 and keeps its error_count, last_error, last_used,
\* added_time and source; every Store row gets weight 1.0, available 1 and
\* consecutive_errors 0, keeps its added_time and source, and holds the
\* error_count, last_error and last_used of the Index record.
C18_ResetFrame ==
    [][reset_all_weights =>
          /\ Live(keys') = Live(keys)
          /\ DOMAIN db' = DOMAIN db
          /\ \A k \in Live(keys) :
                LET a == Rec(keys, k)
                    b == Rec(keys', k)
                IN  /\ b.weight = DefaultWeight
                    /\ b.is_available
                    /\ b.consecutive_errors = 0
                    /\ b.error_count = a.error_count
                    /\ b.last_error = a.last_error
                    /\ b.last_used = a.last_used
                    /\ b.added_time = a.added_time
                    /\ b.source = a.source
          /\ \A k \in DOMAIN db :
                /\ db'[k].weight = DefaultWeight
                /\ db'[k].is_available = 1
                /\ db'[k].consecutive_errors = 0
                /\ db'[k].added_time = db[k].added_time
                /\ db'[k].source = db[k].source
                /\ k \in Live(keys)
                /\ db'[k].error_count = Rec(keys, k).error_count
                /\ db'[k].last_error = TimeToText(Rec(keys, k).last_error)
                /\ db'[k].last_used = TimeToText(Rec(keys, k).last_used)]_vars

\* A reset has restored a credential that had been acquired and had an
\* error on record: the record and its row keep both.
C18_Witness ==
    /\ ret.op = "reset_all_weights"
    /\ \E i \in DOMAIN keys :
          /\ keys[i].weight = DefaultWeight
          /\ keys[i].consecutive_errors = 0
          /\ keys[i].error_count >= 1
          /\ keys[i].last_error # None
          /\ keys[i].last_used # None
          /\ db[keys[i].key].weight = DefaultWeight
          /\ db[keys[i].key].error_count = keys[i].error_count
          /\ db[keys[i].key].last_used = TimeToText(keys[i].last_used)

\* C19: a reset that follows a reset changes no Index record and no Store
\* row: the state after two resets in a row is the state after one.
C19_ResetIdempotent ==
    [][(reset_all_weights /\ ret.op = "reset_all_weights") =>
          (keys' = keys /\ db' = db)]_vars

\* Two resets in a row have run on a pool holding a credential with an
\* error on record.
C19_Witness ==
    /\ ret.op = "reset_all_weights"
    /\ calls = ResetCalls
    /\ \E i \in DOMAIN keys :
          /\ keys[i].error_count >= 1
          /\ keys[i].weight = DefaultWeight
          /\ keys[i].is_available
          /\ db[keys[i].key].is_available = 1

\* No value occurs twice in the Index.
NoDuplicates ==
    \A i, j \in DOMAIN keys : keys[i].key = keys[j].key => i = j

\* C20: no two Index records ever have the same value, and adding a value
\* that is already live returns false and changes neither the Index nor any
\* Store row.
C20_UniqueValues ==
    /\ []NoDuplicates
    /\ [][\A k \in KeyValues, w \in AddWeights :
            (add_key(k, w, "manual") /\ k \in Live(keys)) =>
                /\ ~ret'.ok
                /\ keys' = keys
                /\ keys_set' = keys_set
                /\ db' = db]_vars

\* An add was refused on a pool whose records carry history of use.
C20_Witness ==
    /\ ret.op = "add_key"
    /\ ~ret.ok
    /\ \E i \in DOMAIN keys :
          keys[i].last_used = ClockStep /\ db[keys[i].key].last_used = NULL

\* C21 (as claimed): an import that fails part-way leaves every Store row
\* and the import history as they were; an import that succeeds leaves the
\* rows its lines produce and one more history record.
C21_ImportAtomic ==
    [][\A lines \in ImportFilesWide :
          /\ \A n \in FailPoints(lines) :
                import_keys_from_file_fails(lines, "imported", n) =>
                    (db' = db /\ import_history' = import_history)
          /\ import_keys_from_file(lines, "imported") =>
                /\ db' = store_import_keys_from_file(db, lines, "imported", now).db
                /\ Len(import_history') = Len(import_history) + 1]_vars

\* The number of lines of a file that name a key.
CredentialLines(lines) ==
    Cardinality({n \in DOMAIN lines : lines[n].kind # "skip"})

\* The weight import reads from a line.
LineWeight(line) == IF line.kind = "weighted" THEN line.weight ELSE DefaultWeight

\* The last call was a successful import of this file.
JustImported(lines) ==
    /\ ret.op = "import_keys_from_file"
    /\ ret.ok
    /\ import_history # <<>>
    /\ import_history[Len(import_history)][1] = lines

\* The import reports nothing new and nothing updated, counts every line
\* that names a key as skipped, and changes no row.
ImportChangesNothing(lines) ==
    /\ ret'.ok
    /\ ret'.stats[2] = 0
    /\ ret'.stats[3] = 0
    /\ ret'.stats[4] = CredentialLines(lines)
    /\ db' = db

\* C22 (as claimed): an import of the file that the call before it
\* imported reports new = 0 and updated = 0, counts every credential line
\* as skipped, and leaves every row unchanged.
C22_SecondImportSkipsAll ==
    [][\A lines \in ImportFilesWide :
          (import_keys_from_file(lines, "imported") /\ JustImported(lines)) =>
              ImportChangesNothing(lines)]_vars

\* No two lines of the file give the same key weights more than 0.01 apart.
NoConflictingLines(lines) ==
    \A i, j \in DOMAIN lines :
        (lines[i].kind # "skip" /\ lines[j].kind # "skip"
            /\ lines[i].key = lines[j].key) =>
                LineWeight(lines[i]) - LineWeight(lines[j]) <= WeightTolerance

\* C22 (amended): the same, for a file in which no key is given two
\* weights more than 0.01 apart.
C22_SecondImportSkipsAllUnlessConflict ==
    [][\A lines \in ImportFilesWide :
          (import_keys_from_file(lines, "imported") /\ JustImported(lines)
              /\ NoConflictingLines(lines)) =>
              ImportChangesNothing(lines)]_vars

\* The same file was imported twice in a row: the first import added or
\* updated a key, the second skipped every line.
C22_Witness ==
    /\ ret.op = "import_keys_from_file"
    /\ ret.ok
    /\ Len(import_history) = 2
    /\ import_history[1][1] = import_history[2][1]
    /\ import_history[1][3] + import_history[1][4] >= 1
    /\ import_history[2][3] = 0
    /\ import_history[2][4] = 0
    /\ import_history[2][5] >= 1

\* Thread t has written the first row of its flush and not yet the last.
MidFlush(t) == threads[t].op \in FlushOps /\ threads[t].pc > 1

\* C23 (as claimed): no thread writes a row of its flush while another
\* thread is between the first and the last row of its own.
C23_FlushesNeverInterleave ==
    [][\A t, u \in Threads :
          (t # u /\ MidFlush(t)) => ~flush_write(u)]_vars

\* C25: a cleanup removes no row whose last_used is null, removes only rows
\* whose last_used is earlier than the cutoff, changes no row it keeps, and
\* returns the number of rows it removed.
C25_CleanupSparesNeverUsed ==
    [][\A days_old \in CleanupDays :
          cleanup_old_keys(days_old) =>
              LET removed == DOMAIN db \ DOMAIN db'
              IN  /\ DOMAIN db' \subseteq DOMAIN db
                  /\ \A k \in DOMAIN db' : db'[k] = db[k]
                  /\ \A k \in DOMAIN db :
                        db[k].last_used = NULL => k \in DOMAIN db'
                  /\ \A k \in removed :
                        /\ db[k].last_used # NULL
                        /\ TextToTime(db[k].last_used)
                             < now - days_old * SecondsPerDay
                  /\ ret'.ok
                  /\ ret'.stats = <<Cardinality(removed)>>]_vars

\* A cleanup has removed a row and kept a row that was never used and was
\* added before the cutoff.
C25_Witness ==
    /\ ret.op = "cleanup_old_keys"
    /\ ret.stats[1] >= 1
    /\ \E k \in DOMAIN db :
          /\ db[k].last_used = NULL
          /\ fromisoformat(db[k].added_time) < now

\* C28: for a value that is not in the Index, the lookup gives none, a
\* health report returns normally, a removal returns false, and neither
\* changes a record of the Index or a row of the Store.
C28_UnknownValueIsNoOp ==
    /\ [](\A k \in KeyValues \ keys_set :
             get_key_by_value(keys, keys_set, k) = 0)
    /\ [][\A k \in KeyValues \ keys_set :
            /\ \A code \in ErrorCodes :
                  update_key_health(k, code, FALSE) =>
                      (keys' = keys /\ db' = db /\ ret'.ok)
            /\ update_key_health(k, None, TRUE) =>
                  (keys' = keys /\ db' = db /\ ret'.ok)
            /\ remove_key(k) =>
                  /\ keys' = keys
                  /\ keys_set' = keys_set
                  /\ db' = db
                  /\ ret' = Ret("remove_key", FALSE, <<>>, <<>>)]_vars

\* A removal of a value that is not in the Index has returned false while
\* the Index holds a record and the Store a row.
C28_Witness ==
    /\ ret.op = "remove_key"
    /\ ~ret.ok
    /\ keys # <<>>
    /\ keys_set = KeySetOf(keys)
    /\ keys_set # KeyValues
    /\ DOMAIN db = keys_set

\* Some call of the Index other than a flush ends now, the Store having
\* failed in it.
StoreFailsInLoad == reload_keys_fails

StoreFailsInUpdate ==
    \/ \E k \in KeyValues, w \in AddWeights : add_key_fails(k, w, "manual")
    \/ \E k \in KeyValues : remove_key_fails(k)
    \/ \E k \in KeyValues : update_key_health_fails(k, None, TRUE)
    \/ \E k \in KeyValues, code \in ErrorCodes :
          update_key_health_fails(k, code, FALSE)

RecordOf(ks, k) == ks[CHOOSE i \in DOMAIN ks : ks[i].key = k]

\* C29: execute_with_retry makes at most max_retries + 1 attempts; every
\* attempt that runs the operation runs it with a credential of the current
\* window, marked as used at that moment; a successful attempt ends the call
\* with a normal return; the call raises only after max_retries + 1 failed
\* attempts, and what it raises is the exception of the last of them.
C29_RetryIsBounded ==
    /\ [](threads["t1"].op = "execute_with_retry" =>
            threads["t1"].pc <= MaxRetries + 1)
    /\ [][(attempt_succeeds("t1") \/ \E e \in Errors : attempt_fails("t1", e)) =>
            LET k == threads'["t1"].arg
            IN  /\ threads["t1"].pc <= MaxRetries
                /\ \E i \in DOMAIN keys : keys[i].key = k /\ keys[i].is_available
                /\ RecordOf(keys', k).last_used = now]_vars
    /\ [][attempt_succeeds("t1") =>
            /\ threads'["t1"].op = "idle"
            /\ ret'.ok
            /\ ret'.keys = <<threads'["t1"].arg>>]_vars
    /\ [][\A e \in Errors : attempt_fails("t1", e) =>
            (threads'["t1"].local = <<e>> /\ ret' = ret)]_vars
    /\ [][attempt_without_key("t1") =>
            (threads'["t1"].local = <<NoKeysError>> /\ ret' = ret)]_vars
    /\ [][raise_last_error("t1") =>
            /\ threads["t1"].pc = MaxRetries + 1
            /\ ret' = Raised("execute_with_retry", threads["t1"].local[1])
            /\ threads'["t1"].op = "idle"]_vars

\* A call has raised the exception of an operation after all its attempts.
C29_Witness ==
    /\ ret.op = "execute_with_retry"
    /\ ~ret.ok
    /\ ret.stats[1] \in Errors
    /\ threads["t1"].op = "idle"
    /\ \E i \in DOMAIN keys : keys[i].error_count >= 2

\* C30: the code read from an exception without a status attribute is one
\* of 429, 401, 403, 404, 500, and an attempt that fails with such an
\* exception leaves the number of credentials, the availability of every
\* record and the availability of every row as they were.
C30_MessageErrorsKeepAvailable ==
    /\ [](\A m \in SUBSET Keywords :
             extract_error_code(Error(None, None, m)) \in {429, 401, 403, 404, 500})
    /\ [][\A e \in MessageErrors : attempt_fails("t1", e) =>
            /\ Len(keys') = Len(keys)
            /\ \A i \in DOMAIN keys :
                  /\ keys'[i].key = keys[i].key
                  /\ keys'[i].is_available = keys[i].is_available
            /\ DOMAIN db' = DOMAIN db
            /\ \A k \in DOMAIN db : db'[k].is_available = db[k].is_available]_vars

\* The last attempt failed with an exception that has no status attribute
\* and says 'invalid', and every credential is available.
C30_Witness ==
    /\ threads["t1"].op = "execute_with_retry"
    /\ threads["t1"].pc = MaxRetries + 1
    /\ threads["t1"].local = <<Error(None, None, {"invalid"})>>
    /\ keys # <<>>
    /\ \A i \in DOMAIN keys : keys[i].is_available /\ keys[i].error_count >= 1
    /\ \A k \in DOMAIN db : db[k].is_available = 1

\* The pool has two or more credentials, all available and none with an
\* error report.
HealthyPool ==
    /\ Len(keys) >= 2
    /\ \A i \in DOMAIN keys :
          /\ keys[i].is_available
          /\ keys[i].error_count = 0
          /\ keys[i].last_error = None

\* C31 (as claimed): on a pool of two or more available credentials with no
\* error reports, a caller that goes on acquiring one credential at a time
\* is eventually handed each credential of the pool.
C31_EveryCredentialEventuallyReturned ==
    \A k \in KeyValues :
        [](HealthyPool => <>(ret.op = "get_single_key" /\ ret.keys = <<k>>))

\* Whatever the clock reads, an acquire of one credential passes over a
\* credential that was never used while an available one has been used, and
\* leaves it never used.
NeverUsedIsPassedOver ==
    [][\A i, j \in 1..Len(keys) :
         (/\ get_single_key
          /\ keys[i].last_used = None
          /\ keys[j].last_used # None
          /\ keys[j].is_available) =>
             (ret'.keys # <<keys[i].key>> /\ keys'[i].last_used = None)]_vars

\* Every call of every thread has returned.
AllReturned == \A t \in Threads : threads[t].op = "idle"

\* C24 (as claimed): once the concurrent add, remove and reload calls have
\* all returned, the uniqueness set is the set of values of the records and
\* no value is in two records.
C24_IndexConsistentAtRest ==
    AllReturned => (keys_set = KeySetOf(keys) /\ NoDuplicates)

\* C32 (as claimed): once every call has returned, a credential that
\* reported 400 (and was not reset since) is unavailable in its Index record
\* and in its Store row.
C32_ReportNeverLost ==
    AllReturned =>
        \A k \in fatal :
            /\ \A i \in DOMAIN keys : keys[i].key = k => ~keys[i].is_available
            /\ k \in DOMAIN db => db[k].is_available = 0

\* C33 (as claimed): a cleanup removes the row of a credential only if the
\* last use its Index record carries at the time of the call is earlier than
\* the cutoff.
C33_CleanupGoesByIndex ==
    [][\A days_old \in CleanupDays :
          cleanup_old_keys(days_old) =>
              \A i \in DOMAIN keys :
                  keys[i].key \in DOMAIN db \ DOMAIN db' =>
                      /\ keys[i].last_used # None
                      /\ keys[i].last_used < now - days_old * SecondsPerDay]_vars

\* C34 (as claimed): in no step does the last_used of a credential that is
\* in the Index before and after the step move to an earlier time or back
\* to never-used.
C34_LastUsedNeverMovesBack ==
    [][\A i \in DOMAIN keys, j \in DOMAIN keys' :
          (keys[i].key = keys'[j].key /\ keys[i].last_used # None) =>
              /\ keys'[j].last_used # None
              /\ keys'[j].last_used >= keys[i].last_used]_vars

\* The row and the record agree on everything but last_used.
RowAgrees(row, key) ==
    /\ row.weight = key.weight
    /\ row.is_available = (IF key.is_available THEN 1 ELSE 0)
    /\ row.error_count = key.error_count
    /\ row.consecutive_errors = key.consecutive_errors
    /\ TextToTime(row.last_error) = key.last_error

\* C35 (as claimed): after every call of a single caller the Store and the
\* Index hold the same values and agree, for each, on weight, availability,
\* error_count, consecutive_errors and last_error.
\* and a flush brings last_used of every row up to its record's.
C35_StoreMirrorsIndex ==
    /\ [](/\ DOMAIN db = KeySetOf(keys)
          /\ \A i \in DOMAIN keys : RowAgrees(db[keys[i].key], keys[i]))
    /\ [][save_state_now =>
            \A i \in DOMAIN keys :
                TextToTime(db'[keys[i].key].last_used) = keys[i].last_used]_vars

\* After an acquire the row of a credential that has an error report lags
\* its record in last_used.
C35_Witness ==
    /\ ret.op = "get_keys"
    /\ \E i \in DOMAIN keys :
          /\ keys[i].error_count >= 1
          /\ keys[i].weight < DefaultWeight
          /\ keys[i].last_used = now
          /\ TextToTime(db[keys[i].key].last_used) # keys[i].last_used

\* C36 (as claimed): an acquire of one or more credentials that returns
\* returns at least one, whatever other threads do meanwhile.
C36_AcquireNeverEmpty ==
    (ret.op = "get_keys" /\ ret.ok) => ret.keys # <<>>

\* No caller is inside a call.
CallersIdle == \A t \in Callers : threads[t].op = "idle"

\* C37: when the error reports that callers have made for one credential
\* have all returned, its error_count in the Index and in the Store is the
\* number of reports made, and no other credential has any.
C37_ReportsCounted ==
    CallersIdle =>
        /\ RecordOf(keys, ReportedKey).error_count = calls
        /\ db[ReportedKey].error_count = calls
        /\ \A i \in DOMAIN keys :
              keys[i].key # ReportedKey =>
                  (keys[i].error_count = 0 /\ db[keys[i].key].error_count = 0)

\* All the reports have been made and have returned, and the worker has
\* flushed since and is inside another flush.
C37_Witness ==
    /\ CallersIdle
    /\ calls = ReportCalls
    /\ db[ReportedKey].error_count = ReportCalls
    /\ threads["worker"].op = "auto_save"
    /\ threads["worker"].pc = 2
    /\ threads["worker"].local = <<"saved">>

\* C38: while removals, flushes and health reports interleave, no step
\* adds a row to the Store, and a flush's write of a record whose row has
\* been deleted changes no row.
C38_RemovedNeverReappears ==
    /\ [][DOMAIN db' \subseteq DOMAIN db]_vars
    /\ [][\A t \in {"t2", "worker"} :
            (/\ save_state_write(t)
             /\ threads[t].local[threads[t].pc].key \notin DOMAIN db) =>
                db' = db]_vars

\* A removal has returned true and a flush has since ended in which an
\* UPDATE matched no row.
C38_Witness ==
    /\ ret = Ret("remove_key", TRUE, <<>>, <<>>)
    /\ \E t \in {"t2", "worker"} :
          threads[t].op = "idle" /\ threads[t].arg = 1
    /\ DOMAIN db # KeyValues

\* The error counts of the records and rows after a step are those before
\* it, plus one for credential k.
OneMoreErrorFor(k) ==
    /\ Len(keys') = Len(keys)
    /\ \A i \in DOMAIN keys :
          /\ keys'[i].key = keys[i].key
          /\ keys'[i].error_count =
                keys[i].error_count + (IF keys[i].key = k THEN 1 ELSE 0)
    /\ DOMAIN db' = DOMAIN db
    /\ \A x \in DOMAIN db :
          db'[x].error_count = db[x].error_count + (IF x = k THEN 1 ELSE 0)

\* C39: in execute_with_retry a failed attempt adds exactly one error to the
\* credential of that attempt and none to any other; a successful attempt
\* and an attempt without a credential add none; and once the call has
\* returned nothing more is acquired or reported.
C39_OneReportPerFailedAttempt ==
    /\ [][\A e \in Errors :
            attempt_fails("t1", e) => OneMoreErrorFor(threads'["t1"].arg)]_vars
    /\ [][(attempt_succeeds("t1") \/ attempt_without_key("t1")) =>
            OneMoreErrorFor(0)]_vars
    /\ [][attempt_succeeds("t1") => threads'["t1"].op = "idle"]_vars
    /\ [][threads["t1"].op = "idle" => (keys' = keys /\ db' = db)]_vars

\* Two attempts of a call have failed, the first with a bad request on one
\* credential and the second on the other.
C39_Witness ==
    /\ threads["t1"].op = "execute_with_retry"
    /\ threads["t1"].pc = 2
    /\ Len(keys) = 2
    /\ \E i, j \in DOMAIN keys :
          /\ keys[i].error_count = 1
          /\ ~keys[i].is_available
          /\ keys[j].error_count = 1
          /\ keys[j].is_available
          /\ keys[j].key = threads["t1"].arg
          /\ db[keys[j].key].error_count = 1

\* C40: an acquire that selects does so at least the minimum selection
\* interval after the selection before it, the time of a selection is never
\* later than the clock, and a call that arrives earlier than the interval
\* returns no sooner than the interval after the previous selection.
C40_SelectionsArePaced ==
    /\ [](last_selection_time <= clock)
    /\ [][\A count \in Counts, over \in 0..MaxOversleep :
            (get_keys_paced(count, over) /\ ret'.ok /\ ret'.keys # <<>>) =>
                /\ last_selection_time' >= last_selection_time + MinSelectionInterval
                /\ last_selection_time' = clock'
                /\ clock' >= clock]_vars

\* The second acquire arrived before the interval was over and selected
\* exactly one interval after the first.
C40_Witness ==
    /\ calls = 2
    /\ ret.op = "get_keys"
    /\ ret.keys # <<>>
    /\ threads["t1"].arg = StartClock + 1
    /\ last_selection_time = StartClock + MinSelectionInterval
    /\ clock = last_selection_time

\* The worker is between flushes, its last one failed, and it has started
\* an even (p = 0) or odd (p = 1) number of flushes.
WorkerFailed(p) ==
    /\ threads["worker"].pc = 0
    /\ threads["worker"].local = <<"failed">>
    /\ threads["worker"].arg = p

\* C27: a flush that fails in a caller's thread ends the call with a normal
\* return, and after a flush of the worker has failed the worker starts
\* another flush.
C27_FailedFlushIsRetried ==
    /\ [][\A t \in Threads \ {"worker"} :
            flush_write_fails(t) =>
                (ret' = Ret(threads[t].op, TRUE, <<>>, <<>>)
                    /\ threads'[t].op = "idle")]_vars
    /\ \A p \in {0, 1} :
          WorkerFailed(p) ~> (threads["worker"].arg = 1 - p)

\* The worker is inside a flush it started after one of its flushes had
\* failed, and a caller's flush has failed too.
C27_Witness ==
    /\ threads["worker"].op = "auto_save"
    /\ threads["worker"].local = <<"failed">>
    /\ \E t \in Threads \ {"worker"} :
          threads[t].op = "idle" /\ threads[t].local = <<"failed">>
    /\ ret.op \in {"save_state_now", "reset_all_weights"}
    /\ ret.ok

\* C10 (as claimed): in auto-success mode every credential an acquire
\* returns has, when the call returns, consecutive_errors 0 and weight
\* min(max_weight, previous weight * 1.1).
C10_AutoSuccessCredits ==
    [][\A c \in AcquireCounts :
          (get_keys(c) /\ auto_success) =>
              \A k \in ReturnedNext :
                  /\ Rec(keys', k).consecutive_errors = 0
                  /\ Rec(keys', k).weight =
                        Min(MaxWeight, (Rec(keys, k).weight * 11) \div 10)]_vars
=============================================================================
